---- MODULE Spec2Model ----
(***************************************************************************)
(* A model of the bundle compiler of CasePilot (src-tauri/src/bundle.rs):  *)
(* the TOC planner, the late-insert renumbering, the pagination validator  *)
(* and the compilation pipeline with the files it reads and writes.        *)
(*                                                                         *)
(* The specifications of the module:                                       *)
(*   SpecToc         the planner functions applied to bounded inputs       *)
(*   SpecNumeric     SubPageNumber::new and estimate_toc_pages on numbers  *)
(*   SpecValidate    validate_pagination applied to bounded entry lists    *)
(*   SpecCompile     one run of compile_bundle over a small file system    *)
(*   SpecAliased     one run whose document sits in the output directory   *)
(*   SpecConcurrent  two interleaved runs, as commands or direct calls     *)
(*   SpecReflow      the estimate / render / re-flow steps of the pipeline *)
(*   SpecMerge       merge_pdfs_simple applied to lists of documents       *)
(*   SpecCloneId     the u32 arithmetic of the merger's new object ids     *)
(*   SpecStamp       inject_page_stamp applied repeatedly to one page      *)
(***************************************************************************)
EXTENDS Integers, Sequences, FiniteSets, TLC

VARIABLES
    plan,   \* function call: inputs, the function applied, its return value
    val,    \* validator call: inputs and the ValidationResult returned
    fs,     \* the file system: path -> file content, or NoFile
    inv,    \* the compile_bundle invocations: inputs, locals and position
    db,     \* AppState.db: the database pool behind its mutex, and the guard
    owner   \* history: for each path, the invocation that last wrote or
            \* removed the file there, 0 while no invocation has

vars == <<plan, val, fs, inv, db, owner>>

----------------------------------------------------------------------------
(* Bounds of the model *)

MaxDocs == 3          \* longest document list given to the planner
MaxPageCount == 2     \* largest BundleDocument.page_count
MaxTocBudget == 2     \* largest toc_page_count handed to the planner
MaxInsertCount == 2   \* largest insert_count
MaxEntries == 2       \* longest entry list given to the validator
MaxPage == 3          \* largest start_page / end_page of a validator entry
MaxLongDocs == 28     \* longest list of one-page documents given to the planner
MaxLongInserts == 27  \* largest insert_count over such a list
MaxBasePage == 2      \* largest base_page given to SubPageNumber::new
MaxIndex == 260       \* largest index given to SubPageNumber::new
MaxDocumentCount == 60  \* estimate_toc_pages is applied to 0..60 and 2^24 + 0..60

----------------------------------------------------------------------------
(* Small helpers *)

Min(a, b) == IF a < b THEN a ELSE b

Max(a, b) == IF a > b THEN a ELSE b

Last(s) == s[Len(s)]

RECURSIVE SumSeq(_)
SumSeq(s) == IF s = <<>> THEN 0 ELSE s[1] + SumSeq(Tail(s))

\* Option<T>: None is the empty tuple, Some(x) the one-element tuple
None == <<>>

Some(x) == <<x>>

IsSome(o) == o # None

Unwrap(o) == o[1]

\* all sequences over S of length 0..n
SeqUpTo(S, n) == UNION {[1..k -> S] : k \in 0..n}

\* the variables of the application state, where no application runs
NoAppState == [pool |-> FALSE, guard |-> None]

----------------------------------------------------------------------------
(* Data model: bundle.rs lines 11-110 *)

\* BundleDocument; id and label are never read by the functions modelled
BundleDocument(path, pages) ==
    [file_path |-> path, description |-> "about " \o path, page_count |-> pages]

TOCEntry(label, description, start, end, count) ==
    [label |-> label, description |-> description,
     start_page |-> start, end_page |-> end, page_count |-> count]

\* u8 arithmetic of `index as u8`
AsU8(n) == n % 256

Alphabet ==
    <<"A","B","C","D","E","F","G","H","I","J","K","L","M",
      "N","O","P","Q","R","S","T","U","V","W","X","Y","Z">>

\* (byte as char) for the bytes b'A'..b'Z'
AsChar(byte) == Alphabet[byte - 64]

\* SubPageNumber::new: suffix = (b'A' + (index as u8).min(25)) as char; the
\* mutant starts the letters at 'B'
SubPageNumberNewFromB(base_page, index) ==
    [base_page |-> base_page, suffix |-> AsChar(65 + Min(AsU8(index) + 1, 25))]

SubPageNumberNew(base_page, index) ==
    [base_page |-> base_page, suffix |-> AsChar(65 + Min(AsU8(index), 25))]

SubPageNumberToString(sp) == ToString(sp.base_page) \o sp.suffix

----------------------------------------------------------------------------
(* TOC planner: bundle.rs lines 112-140 and 597-640 *)

\* the loop of calculate_toc_preview: the mutant advances current_page to
\* end_page instead of end_page + 1
RECURSIVE PreviewLoopOverlap(_, _, _, _)
PreviewLoopOverlap(documents, i, current_page, entries) ==
    IF i > Len(documents) THEN entries
    ELSE LET doc == documents[i]
             start_page == current_page
             end_page == current_page + doc.page_count - 1
         IN PreviewLoopOverlap(documents, i + 1, end_page,
                Append(entries,
                       TOCEntry("Tab " \o ToString(i), doc.description,
                                start_page, end_page, doc.page_count)))

\* the loop body of calculate_toc_preview; i is the 1-based position, so
\* enumerate()'s index is i - 1 and the label "Tab {i_0 + 1}" is "Tab i"
RECURSIVE PreviewLoop(_, _, _, _)
PreviewLoop(documents, i, current_page, entries) ==
    IF i > Len(documents) THEN entries
    ELSE LET doc == documents[i]
             start_page == current_page
             end_page == current_page + doc.page_count - 1
         IN PreviewLoop(documents, i + 1, end_page + 1,
                Append(entries,
                       TOCEntry("Tab " \o ToString(i), doc.description,
                                start_page, end_page, doc.page_count)))

calculate_toc_preview_overlap(documents, toc_page_count) ==
    PreviewLoopOverlap(documents, 1, toc_page_count + 1, <<>>)

calculate_toc_preview(documents, toc_page_count) ==
    PreviewLoop(documents, 1, toc_page_count + 1, <<>>)

\* is_late_insert for the 0-based index i0
IsLateInsert(i0, insert_after, insert_count) ==
    IF IsSome(insert_after)
    THEN i0 > Unwrap(insert_after) /\ i0 <= Unwrap(insert_after) + insert_count
    ELSE FALSE

\* one entry of calculate_toc_with_subnumbers; the mutant ends a late insert
\* on its anchor page (current_page - 1)
SubnumberEntryAnchored(doc, i0, current_page, insert_after, insert_count) ==
    IF IsLateInsert(i0, insert_after, insert_count)
    THEN LET base_page == current_page - 1
             insert_index == i0 - Unwrap(insert_after) - 1
             sub_page == SubPageNumberNew(base_page, insert_index)
         IN TOCEntry("Tab " \o ToString(Unwrap(insert_after) + 1) \o sub_page.suffix,
                     doc.description, current_page, base_page, doc.page_count)
    ELSE TOCEntry("Tab " \o ToString(i0 + 1), doc.description,
                  current_page, current_page + doc.page_count - 1, doc.page_count)

SubnumberEntry(doc, i0, current_page, insert_after, insert_count) ==
    IF IsLateInsert(i0, insert_after, insert_count)
    THEN LET base_page == current_page - 1
             insert_index == i0 - Unwrap(insert_after) - 1
             sub_page == SubPageNumberNew(base_page, insert_index)
         IN TOCEntry("Tab " \o ToString(Unwrap(insert_after) + 1) \o sub_page.suffix,
                     doc.description, current_page,
                     current_page + doc.page_count - 1, doc.page_count)
    ELSE TOCEntry("Tab " \o ToString(i0 + 1), doc.description,
                  current_page, current_page + doc.page_count - 1, doc.page_count)

RECURSIVE SubnumberLoop(_, _, _, _, _, _)
SubnumberLoop(documents, i, current_page, insert_after, insert_count, entries) ==
    IF i > Len(documents) THEN entries
    ELSE LET doc == documents[i]
         IN SubnumberLoop(documents, i + 1, current_page + doc.page_count,
                insert_after, insert_count,
                Append(entries,
                       SubnumberEntry(doc, i - 1, current_page,
                                      insert_after, insert_count)))

calculate_toc_with_subnumbers(documents, toc_page_count, insert_after, insert_count) ==
    SubnumberLoop(documents, 1, toc_page_count + 1, insert_after, insert_count, <<>>)

----------------------------------------------------------------------------
(* SpecToc: the planner functions applied to every bounded input *)

SrcName(i) == "src/doc" \o ToString(i) \o ".pdf"

\* the document list with page counts pcs, document i stored at SrcName(i)
DocsOf(pcs) == [i \in 1..Len(pcs) |-> BundleDocument(SrcName(i), pcs[i])]

\* long lists of one-page documents with a long run of late inserts, so
\* that the letters run from 'A' to 'Z' and past it
LongPlanInputs ==
    [documents : {DocsOf([i \in 1..n |-> 1]) : n \in (MaxLongDocs - 2)..MaxLongDocs},
     toc_page_count : {1},
     insert_after : {Some(0), Some(1)},
     insert_count : (MaxInsertCount + 1)..MaxLongInserts]

PlanInputs ==
    [documents : {DocsOf(pcs) : pcs \in SeqUpTo(0..MaxPageCount, MaxDocs)},
     toc_page_count : 0..MaxTocBudget,
     insert_after : {None} \cup {Some(p) : p \in 0..MaxDocs},
     insert_count : 0..MaxInsertCount]
    \cup LongPlanInputs

InitToc ==
    /\ plan \in {[args |-> a, called |-> "none", entries |-> <<>>] : a \in PlanInputs}
    /\ val = [called |-> FALSE]
    /\ fs = <<>>
    /\ inv = <<>>
    /\ db = NoAppState
    /\ owner = <<>>

CallPreview ==
    /\ plan.called = "none"
    /\ plan' = [plan EXCEPT
                  !.called = "calculate_toc_preview",
                  !.entries = calculate_toc_preview(plan.args.documents,
                                                    plan.args.toc_page_count)]
    /\ UNCHANGED <<val, fs, inv, db, owner>>

CallSubnumbers ==
    /\ plan.called = "none"
    /\ plan' = [plan EXCEPT
                  !.called = "calculate_toc_with_subnumbers",
                  !.entries = calculate_toc_with_subnumbers(
                                  plan.args.documents, plan.args.toc_page_count,
                                  plan.args.insert_after, plan.args.insert_count)]
    /\ UNCHANGED <<val, fs, inv, db, owner>>

NextToc == CallPreview \/ CallSubnumbers

SpecToc == InitToc /\ [][NextToc]_vars

----------------------------------------------------------------------------
(* Claims about the planner, checked under SpecToc *)

PlanPageCounts == [i \in 1..Len(plan.args.documents) |-> plan.args.documents[i].page_count]

\* C1: for page counts p1..pk, each >= 1, and TOC budget t, calculate_toc_preview
\* returns k entries in input order, the first starting at t + 1, each next one
\* starting on the page after the previous one ends, the last ending at
\* t + (p1 + ... + pk).
C1_PreviewContiguous ==
    (/\ plan.called = "calculate_toc_preview"
     /\ \A i \in 1..Len(plan.args.documents) : plan.args.documents[i].page_count >= 1)
    => LET k == Len(plan.args.documents)
           t == plan.args.toc_page_count
           e == plan.entries
       IN /\ Len(e) = k
          /\ \A i \in 1..k : /\ e[i].description = plan.args.documents[i].description
                             /\ e[i].label = "Tab " \o ToString(i)
          /\ k >= 1 => e[1].start_page = t + 1
          /\ \A i \in 1..(k - 1) : e[i + 1].start_page = e[i].end_page + 1
          /\ k >= 1 => e[k].end_page = t + SumSeq(PlanPageCounts)

C1_Witness ==
    /\ plan.called = "calculate_toc_preview"
    /\ Len(plan.args.documents) = MaxDocs
    /\ plan.args.toc_page_count = 2
    /\ \A i \in 1..Len(plan.args.documents) : plan.args.documents[i].page_count >= 1
    /\ plan.args.documents[1].page_count = 2
    /\ plan.entries[2].start_page = 5

\* C2: every entry calculate_toc_preview or calculate_toc_with_subnumbers
\* returns has end_page = start_page + page_count - 1 and the page_count of the
\* document at the same index.
C2_EntryRange ==
    plan.called \in {"calculate_toc_preview", "calculate_toc_with_subnumbers"}
    => /\ Len(plan.entries) = Len(plan.args.documents)
       /\ \A i \in 1..Len(plan.entries) :
             /\ plan.entries[i].end_page
                  = plan.entries[i].start_page + plan.entries[i].page_count - 1
             /\ plan.entries[i].page_count = plan.args.documents[i].page_count

\* a late insert of two pages has been numbered
C2_Witness ==
    /\ plan.called = "calculate_toc_with_subnumbers"
    /\ plan.args.insert_after = Some(0)
    /\ plan.args.insert_count = 1
    /\ Len(plan.entries) >= 2
    /\ plan.entries[2].label = "Tab 1A"
    /\ plan.entries[2].page_count = 2

----------------------------------------------------------------------------
(* PDF object graph (lopdf::Document as bundle.rs uses it)                  *)

\* ObjectId = (u32, u16): object number and generation
ObjectId(num, gen) == <<num, gen>>

\* lopdf::Object variants the code matches on
Reference(id) == [t |-> "ref", id |-> id]

Integer(n) == [t |-> "int", n |-> n]

Name(s) == [t |-> "name", name |-> s]

Array(items) == [t |-> "arr", items |-> items]

\* a Dictionary is a function from keys to objects
Dictionary(d) == [t |-> "dict", dict |-> d]

Stream(d, content) == [t |-> "stream", dict |-> d, content |-> content]

IsDict(o) == o.t = "dict"

HasKey(o, key) == key \in DOMAIN o.dict

\* what a path holds: no file, a file that does not load as a PDF, or a
\* document: its objects by id and the trailer's Root reference
AbsentFile == [kind |-> "absent"]

CorruptFile == [kind |-> "corrupt"]

Document(objects, root) == [kind |-> "pdf", objects |-> objects, root |-> root]

\* the ids of a set in BTreeMap order: by number, then by generation
IdLess(a, b) == a[1] < b[1] \/ (a[1] = b[1] /\ a[2] < b[2])

RECURSIVE SortedIds(_)
SortedIds(S) ==
    IF S = {} THEN <<>>
    ELSE LET least == CHOOSE a \in S : \A b \in S \ {a} : IdLess(a, b)
         IN <<least>> \o SortedIds(S \ {least})

\* the highest object number of a document (lines 249-254)
MaxObjectNumber(doc) ==
    IF DOMAIN doc.objects = {} THEN 0
    ELSE CHOOSE n \in {id[1] : id \in DOMAIN doc.objects} :
            \A id \in DOMAIN doc.objects : id[1] <= n

\* Document::add_object: the object is stored under the next object number
NextObjectId(doc) == ObjectId(MaxObjectNumber(doc) + 1, 0)

\* the page tree below node id, leaves in Kids order; depth bounds the descent
RECURSIVE PagesBelow(_, _, _)
PagesBelow(doc, id, depth) ==
    IF id \notin DOMAIN doc.objects \/ ~IsDict(doc.objects[id]) THEN <<>>
    ELSE LET node == doc.objects[id]
         IN IF HasKey(node, "Type") /\ node.dict["Type"] = Name("Pages")
            THEN IF depth = 0 \/ ~HasKey(node, "Kids") \/ node.dict["Kids"].t # "arr"
                 THEN <<>>
                 ELSE LET kids == node.dict["Kids"].items
                          below[k \in 0..Len(kids)] ==
                              IF k = 0 THEN <<>>
                              ELSE below[k - 1] \o
                                   (IF kids[k].t = "ref"
                                    THEN PagesBelow(doc, kids[k].id, depth - 1)
                                    ELSE <<>>)
                      IN below[Len(kids)]
            ELSE <<id>>

\* the reference the catalog holds under Pages, if the chain
\* trailer Root -> catalog dictionary -> Pages resolves (lines 272-274)
RootPagesRef(doc) ==
    IF doc.root \in DOMAIN doc.objects
       /\ IsDict(doc.objects[doc.root])
       /\ HasKey(doc.objects[doc.root], "Pages")
       /\ doc.objects[doc.root].dict["Pages"].t = "ref"
    THEN Some(doc.objects[doc.root].dict["Pages"].id)
    ELSE None

\* Document::get_pages: the page object ids in page order (page 1 first)
GetPages(doc) ==
    IF IsSome(RootPagesRef(doc))
    THEN PagesBelow(doc, Unwrap(RootPagesRef(doc)), 3)
    ELSE <<>>

\* a file that holds a PDF can be loaded; anything else fails to load
Loadable(file) == file.kind = "pdf"

\* a PDF with a flat page tree: catalog 1, Pages 2, and for page j the page
\* object numbered page_nums[j] with its content stream right after it
FlatPdf(page_nums, body) ==
    LET n == Len(page_nums)
        page_id(j) == ObjectId(page_nums[j], 0)
        stream_id(j) == ObjectId(page_nums[j] + 1, 0)
        ids == {ObjectId(1, 0), ObjectId(2, 0)}
               \cup {page_id(j) : j \in 1..n} \cup {stream_id(j) : j \in 1..n}
        object(id) ==
            IF id = ObjectId(1, 0)
            THEN Dictionary([Type |-> Name("Catalog"), Pages |-> Reference(ObjectId(2, 0))])
            ELSE IF id = ObjectId(2, 0)
            THEN Dictionary([Type |-> Name("Pages"),
                             Kids |-> Array([j \in 1..n |-> Reference(page_id(j))]),
                             Count |-> Integer(n)])
            ELSE IF \E j \in 1..n : id = page_id(j)
            THEN Dictionary([Type |-> Name("Page"),
                             Parent |-> Reference(ObjectId(2, 0)),
                             Contents |-> Reference(ObjectId(id[1] + 1, 0))])
            ELSE LET j == CHOOSE j \in 1..n : id = stream_id(j)
                 IN Stream([Length |-> Integer(Len(body[j]))], body[j])
    IN Document([id \in ids |-> object(id)], ObjectId(1, 0))

\* a PDF of n empty pages
PdfOfPages(n) == FlatPdf([j \in 1..n |-> 1 + 2 * j], [j \in 1..n |-> <<>>])

----------------------------------------------------------------------------
(* Pagination validator: bundle.rs lines 73-89 and 642-739 *)

\* ValidationError; the message text repeats the numbers of the other fields
ValidationError(error_type, page, expected, actual) ==
    [error_type |-> error_type, page |-> page,
     expected |-> expected, actual |-> actual]

\* start_page + page_count - 1 in usize.  The sum is at least 1 for every
\* entry of the model (page_count >= 1), so the subtraction cannot underflow.
CalculatedEndOffByOne(entry) == entry.start_page + entry.page_count

CalculatedEnd(entry) == entry.start_page + entry.page_count - 1

\* lines 654-664: only the first entry (index 0) is held against the TOC page
TocOverlapCheckAnyEntry(entry, i0) ==
    IF entry.start_page < 2
    THEN <<ValidationError("toc_overlap", Some(entry.start_page),
                           Some(2), Some(entry.start_page))>>
    ELSE <<>>

TocOverlapCheck(entry, i0) ==
    IF i0 = 0 /\ entry.start_page < 2
    THEN <<ValidationError("toc_overlap", Some(entry.start_page),
                           Some(2), Some(entry.start_page))>>
    ELSE <<>>

\* lines 668-677
GapCheckNotEqual(entry, expected_page) ==
    IF entry.start_page # expected_page
    THEN <<ValidationError("pagination_gap", Some(expected_page),
                           Some(expected_page), Some(entry.start_page))>>
    ELSE <<>>

GapCheck(entry, expected_page) ==
    IF entry.start_page > expected_page
    THEN <<ValidationError("pagination_gap", Some(expected_page),
                           Some(expected_page), Some(entry.start_page))>>
    ELSE <<>>

\* lines 679-692
PageCountCheck(entry) ==
    IF CalculatedEnd(entry) # entry.end_page
    THEN <<ValidationError("page_count_mismatch", Some(entry.start_page),
                           Some(CalculatedEnd(entry)), Some(entry.end_page))>>
    ELSE <<>>

\* the page the next entry is expected to start on (line 694)
NextExpectedSamePage(entry) == entry.end_page

NextExpected(entry) == entry.end_page + 1

\* lines 651-695: the loop over the entries; i is the 1-based position
RECURSIVE EntryLoop(_, _, _, _)
EntryLoop(toc_entries, i, expected_page, errors) ==
    IF i > Len(toc_entries) THEN errors
    ELSE LET entry == toc_entries[i]
             expected == IF i - 1 = 0 THEN entry.start_page ELSE expected_page
             errors1 == errors \o TocOverlapCheck(entry, i - 1)
             errors2 == errors1 \o GapCheck(entry, expected)
             errors3 == errors2 \o PageCountCheck(entry)
         IN EntryLoop(toc_entries, i + 1, NextExpected(entry), errors3)

\* lines 697-721; the mutant reports a load failure as an error
PdfCheckLoadFailureIsError(toc_entries, pdf) ==
    IF Loadable(pdf)
    THEN LET actual_pages == Len(GetPages(pdf))
             expected_total == IF toc_entries = <<>> THEN 0
                               ELSE Last(toc_entries).end_page
         IN [errors |-> IF actual_pages # expected_total
                        THEN <<ValidationError("total_page_mismatch", None,
                                               Some(expected_total),
                                               Some(actual_pages))>>
                        ELSE <<>>,
             warnings |-> <<>>]
    ELSE IF pdf.kind # "absent"
    THEN [errors |-> <<ValidationError("total_page_mismatch", None, None, None)>>,
          warnings |-> <<>>]
    ELSE [errors |-> <<>>, warnings |-> <<>>]

PdfCheck(toc_entries, pdf) ==
    IF Loadable(pdf)
    THEN LET actual_pages == Len(GetPages(pdf))
             expected_total == IF toc_entries = <<>> THEN 0
                               ELSE Last(toc_entries).end_page
         IN [errors |-> IF actual_pages # expected_total
                        THEN <<ValidationError("total_page_mismatch", None,
                                               Some(expected_total),
                                               Some(actual_pages))>>
                        ELSE <<>>,
             warnings |-> <<>>]
    ELSE IF pdf.kind # "absent"
    THEN [errors |-> <<>>, warnings |-> <<"Could not validate PDF">>]
    ELSE [errors |-> <<>>, warnings |-> <<>>]

\* lines 723-732
RECURSIVE LongTabWarnings(_)
LongTabWarnings(toc_entries) ==
    IF toc_entries = <<>> THEN <<>>
    ELSE (IF Head(toc_entries).page_count > 100
          THEN <<Head(toc_entries).label \o " - consider splitting">>
          ELSE <<>>) \o LongTabWarnings(Tail(toc_entries))

\* the mutant lets a warning make the result invalid
validate_pagination_strict(toc_entries, pdf) ==
    LET errors1 == EntryLoop(toc_entries, 1, 1, <<>>)
        checked == PdfCheck(toc_entries, pdf)
        errors == errors1 \o checked.errors
        warnings == checked.warnings \o LongTabWarnings(toc_entries)
    IN [is_valid |-> errors = <<>> /\ warnings = <<>>,
        errors |-> errors, warnings |-> warnings]

validate_pagination(toc_entries, pdf) ==
    LET errors1 == EntryLoop(toc_entries, 1, 1, <<>>)
        checked == PdfCheck(toc_entries, pdf)
        errors == errors1 \o checked.errors
        warnings == checked.warnings \o LongTabWarnings(toc_entries)
    IN [is_valid |-> errors = <<>>, errors |-> errors, warnings |-> warnings]

----------------------------------------------------------------------------
(* SpecValidate: validate_pagination applied to every bounded input *)

\* page counts of the entries: a single page and several pages
EntryPageCounts == {1, 2}

\* entries of more than 100 pages (line 726): one that ends where its
\* page_count says, one that does not
LongEntriesAt(i) ==
    {TOCEntry("Tab " \o ToString(i), "", 2, e, 101) : e \in {2, 102}}

\* the entries at list position i; start, end and count are free, so the
\* lists hold gaps, overlaps and wrong ends as well as well-formed ranges
EntriesAt(i) ==
    {TOCEntry("Tab " \o ToString(i), "", s, e, c) :
        s \in 0..MaxPage, e \in 0..MaxPage, c \in EntryPageCounts}
    \cup LongEntriesAt(i)

RECURSIVE EntryLists(_)
EntryLists(k) ==
    IF k = 0 THEN {<<>>}
    ELSE EntryLists(k - 1)
         \cup {Append(l, x) : l \in {m \in EntryLists(k - 1) : Len(m) = k - 1},
                              x \in EntriesAt(k)}

PdfStates == {AbsentFile, CorruptFile, PdfOfPages(MaxPage - 1), PdfOfPages(MaxPage)}

NoResult == [is_valid |-> FALSE, errors |-> <<>>, warnings |-> <<>>]

InitValidate ==
    /\ val \in {[called |-> FALSE, toc_entries |-> l, pdf |-> f, result |-> NoResult] :
                  l \in EntryLists(MaxEntries), f \in PdfStates}
    /\ plan = [called |-> "none"]
    /\ fs = <<>>
    /\ inv = <<>>
    /\ db = NoAppState
    /\ owner = <<>>

CallValidate ==
    /\ ~val.called
    /\ val' = [val EXCEPT !.called = TRUE,
                          !.result = validate_pagination(val.toc_entries, val.pdf)]
    /\ UNCHANGED <<plan, fs, inv, db, owner>>

NextValidate == CallValidate

SpecValidate == InitValidate /\ [][NextValidate]_vars

----------------------------------------------------------------------------
(* Page stamper: bundle.rs lines 369-464 *)

\* lines 377-381.  The position and font size of PaginationStyle only place
\* the text on the page; the style of the model is its format.
StampText(format, page_num, total_pages) ==
    IF format = "Page X" THEN "Page " \o ToString(page_num)
    ELSE IF format = "X" THEN ToString(page_num)
    ELSE "Page " \o ToString(page_num) \o " of " \o ToString(total_pages)

\* the operator sequence of lines 394-397, as one item of a content stream
StampOps(stamp_text) == "q BT /Helvetica Tf Td (" \o stamp_text \o ") Tj ET Q"

\* lines 400-419: the content of the stream the page's Contents refers to,
\* empty unless Contents is a reference to a stream
ExistingContent(doc, page_id) ==
    IF page_id \in DOMAIN doc.objects /\ IsDict(doc.objects[page_id])
       /\ HasKey(doc.objects[page_id], "Contents")
    THEN LET contents_ref == doc.objects[page_id].dict["Contents"]
         IN IF contents_ref.t = "ref" /\ contents_ref.id \in DOMAIN doc.objects
               /\ doc.objects[contents_ref.id].t = "stream"
            THEN doc.objects[contents_ref.id].content
            ELSE <<>>
    ELSE <<>>

\* inject_page_stamp: a new stream holding the old content and the stamp is
\* added, and the page's Contents is pointed at it
inject_page_stamp(doc, page_id, page_num, total_pages, format) ==
    LET new_content == ExistingContent(doc, page_id)
                       \o <<"\n", StampOps(StampText(format, page_num, total_pages)), "\n">>
        new_stream_id == NextObjectId(doc)
        stream == Stream([Length |-> Integer(Len(new_content))], new_content)
        added == (new_stream_id :> stream) @@ doc.objects
    IN [doc EXCEPT !.objects =
          IF page_id \in DOMAIN added /\ IsDict(added[page_id])
          THEN [added EXCEPT ![page_id] =
                  Dictionary(("Contents" :> Reference(new_stream_id)) @@ added[page_id].dict)]
          ELSE added]

\* lines 455-458: the pages are stamped in page order, page i (0-based) with
\* start_page + i
RECURSIVE StampPages(_, _, _, _, _, _)
StampPages(doc, page_ids, i, start_page, total_pages, format) ==
    IF i > Len(page_ids) THEN doc
    ELSE StampPages(inject_page_stamp(doc, page_ids[i], start_page + (i - 1),
                                      total_pages, format),
                    page_ids, i + 1, start_page, total_pages, format)

\* inject_pagination on a loaded document: the document that is saved
StampedDocument(doc, start_page, total_pages, format) ==
    StampPages(doc, GetPages(doc), 1, start_page, total_pages, format)

----------------------------------------------------------------------------
(* TOC rendering: bundle.rs lines 135-215 *)

EntriesPerPage == 25

\* f32 keeps 24 significant bits
F32MantissaBits == 24

RECURSIVE Pow2(_)
Pow2(e) == IF e = 0 THEN 1 ELSE 2 * Pow2(e - 1)

\* num / den rounded to the nearest integer, ties to the even one
RoundHalfEven(num, den) ==
    LET q == num \div den
        r == num % den
    IN IF 2 * r < den THEN q
       ELSE IF 2 * r > den THEN q + 1
       ELSE IF q % 2 = 0 THEN q ELSE q + 1

\* the number of binary digits of n >= 1
BitLength(n) == CHOOSE b \in 1..30 : Pow2(b - 1) <= n /\ n < Pow2(b)

\* `n as f32`: exact below 2^24, beyond that rounded to 24 significant bits
AsF32(n) ==
    IF n < Pow2(F32MantissaBits) THEN n
    ELSE LET unit == Pow2(BitLength(n) - F32MantissaBits)
         IN RoundHalfEven(n, unit) * unit

\* `(x / y).ceil() as usize` for integer-valued f32 x >= 0 and y >= 1: the
\* quotient is rounded to 24 significant bits before ceil is taken
F32DivCeil(x, y) ==
    IF x = 0 THEN 0
    ELSE IF x < y THEN 1
    ELSE LET p == CHOOSE e \in 0..(F32MantissaBits - 1) :
                     y * Pow2(e) <= x /\ x < y * Pow2(e + 1)
             scale == Pow2(F32MantissaBits - 1 - p)
             mantissa == RoundHalfEven(x * scale, y)
         IN (mantissa + scale - 1) \div scale

\* estimate_toc_pages: ((document_count as f32) / (25 as f32)).ceil() as
\* usize, at least 1
estimate_toc_pages(document_count) ==
    Max(F32DivCeil(AsF32(document_count), AsF32(EntriesPerPage)), 1)

\* lines 162-186: a new page is begun before entry i (0-based) when
\* i > 0 and i % 25 = 0
TocPageOfEntry(i0) == 1 + (i0 \div EntriesPerPage)

TocPageCount(entries) ==
    IF entries = <<>> THEN 1 ELSE TocPageOfEntry(Len(entries) - 1)

\* lines 189-195: what is printed for one entry
TocLine(entry) ==
    <<entry.label,
      IF Len(entry.description) > 50
      THEN SubSeq(entry.description, 1, 47) \o "..."
      ELSE entry.description,
      ToString(entry.start_page)>>

\* the content of TOC page p: the title on the first page, then its entries
TocPageBody(entries, p) ==
    (IF p = 1 THEN <<"TABLE OF CONTENTS">> ELSE <<>>)
    \o [k \in 1..Cardinality({i \in 1..Len(entries) : TocPageOfEntry(i - 1) = p}) |->
          TocLine(entries[(p - 1) * EntriesPerPage + k])]

\* the document generate_toc_pdf saves; printpdf numbers the page objects in
\* page order
TocDocument(entries) ==
    LET n == TocPageCount(entries)
    IN FlatPdf([p \in 1..n |-> 1 + 2 * p], [p \in 1..n |-> TocPageBody(entries, p)])

----------------------------------------------------------------------------
(* Object-graph merger: bundle.rs lines 217-324 *)

\* update_references: every reference found in id_map is replaced, through
\* arrays, dictionaries and stream dictionaries; the mutant leaves stream
\* dictionaries as they are
RECURSIVE update_references_no_stream(_, _)
update_references_no_stream(obj, id_map) ==
    IF obj.t = "ref"
    THEN IF obj.id \in DOMAIN id_map THEN Reference(id_map[obj.id]) ELSE obj
    ELSE IF obj.t = "arr"
    THEN Array([k \in 1..Len(obj.items) |->
                   update_references_no_stream(obj.items[k], id_map)])
    ELSE IF obj.t = "dict"
    THEN Dictionary([key \in DOMAIN obj.dict |->
                        update_references_no_stream(obj.dict[key], id_map)])
    ELSE obj

RECURSIVE update_references(_, _)
update_references(obj, id_map) ==
    IF obj.t = "ref"
    THEN IF obj.id \in DOMAIN id_map THEN Reference(id_map[obj.id]) ELSE obj
    ELSE IF obj.t = "arr"
    THEN Array([k \in 1..Len(obj.items) |-> update_references(obj.items[k], id_map)])
    ELSE IF obj.t = "dict"
    THEN Dictionary([key \in DOMAIN obj.dict |-> update_references(obj.dict[key], id_map)])
    ELSE IF obj.t = "stream"
    THEN Stream([key \in DOMAIN obj.dict |-> update_references(obj.dict[key], id_map)],
                obj.content)
    ELSE obj

\* lines 272-287: the page is appended to the Kids of the base document's
\* root Pages node and its Count goes up by one, each if it has the shape
\* the code matches
AppendPage(base, new_id) ==
    IF IsSome(RootPagesRef(base))
       /\ Unwrap(RootPagesRef(base)) \in DOMAIN base.objects
       /\ IsDict(base.objects[Unwrap(RootPagesRef(base))])
    THEN LET pages_ref == Unwrap(RootPagesRef(base))
             pages_dict == base.objects[pages_ref].dict
             with_kid ==
                 IF "Kids" \in DOMAIN pages_dict /\ pages_dict["Kids"].t = "arr"
                 THEN [pages_dict EXCEPT !["Kids"] =
                          Array(Append(pages_dict["Kids"].items, Reference(new_id)))]
                 ELSE pages_dict
             with_count ==
                 IF "Count" \in DOMAIN with_kid /\ with_kid["Count"].t = "int"
                 THEN [with_kid EXCEPT !["Count"] = Integer(with_kid["Count"].n + 1)]
                 ELSE with_kid
         IN [base EXCEPT !.objects[pages_ref] = Dictionary(with_count)]
    ELSE base

\* lines 265-289: the cloned objects are visited in the order of id_map
\* (a BTreeMap: ascending old id); each has its references rewritten and, if
\* its old id is one of the source's pages, is appended to the page tree
RECURSIVE RewriteAndLink(_, _, _, _, _)
RewriteAndLink(base, old_ids, k, id_map, src_pages) ==
    IF k > Len(old_ids) THEN base
    ELSE LET old_id == old_ids[k]
             new_id == id_map[old_id]
             rewritten == [base EXCEPT !.objects[new_id] =
                              update_references(base.objects[new_id], id_map)]
             linked == IF \E j \in 1..Len(src_pages) : src_pages[j] = old_id
                       THEN AppendPage(rewritten, new_id)
                       ELSE rewritten
         IN RewriteAndLink(linked, old_ids, k + 1, id_map, src_pages)

\* lines 242-289: one source document merged into the base document
MergeInto(base, doc) ==
    LET src_pages == GetPages(doc)
        max_id == MaxObjectNumber(base)
        id_map == [old_id \in DOMAIN doc.objects |->
                      ObjectId(old_id[1] + max_id + 1, old_id[2])]
        cloned == [new_id \in {id_map[o] : o \in DOMAIN doc.objects} |->
                      doc.objects[CHOOSE o \in DOMAIN doc.objects : id_map[o] = new_id]]
        inserted == [base EXCEPT !.objects = cloned @@ base.objects]
    IN RewriteAndLink(inserted, SortedIds(DOMAIN doc.objects), 1, id_map, src_pages)

RECURSIVE MergeAll(_, _, _)
MergeAll(base, docs, k) ==
    IF k > Len(docs) THEN base ELSE MergeAll(MergeInto(base, docs[k]), docs, k + 1)

\* merge_pdfs_simple on the loaded documents: the first is the base, the
\* others are merged into it in order
MergedDocument(docs) == MergeAll(docs[1], docs, 2)

----------------------------------------------------------------------------
(* Compilation pipeline: bundle.rs lines 466-595 *)

CompileResult(success, pdf_path, toc_entries, total_pages, errors, warnings) ==
    [success |-> success, pdf_path |-> pdf_path, toc_entries |-> toc_entries,
     total_pages |-> total_pages, errors |-> errors, warnings |-> warnings]

\* Result<CompileResult, String>
Ok(value) == [ok |-> TRUE, value |-> value]

Err(message) == [ok |-> FALSE, err |-> message]

\* PathBuf::join of a directory and a relative file name
Join(dir, name) == dir \o "/" \o name

Exists(path) == fs[path].kind # "absent"

TocTempPath(output_dir) == Join(output_dir, "_toc_temp.pdf")

\* line 560; i0 is the 0-based document index.  The mutant puts the file
\* into one directory whatever output_dir is.
StampedPathShared(output_dir, i0) == Join("out", "_doc_" \o ToString(i0) \o "_stamped.pdf")

StampedPath(output_dir, i0) == Join(output_dir, "_doc_" \o ToString(i0) \o "_stamped.pdf")

MergedPath(output_dir, bundle_name) == Join(output_dir, bundle_name \o "_merged.pdf")

FinalPath(output_dir, bundle_name) == Join(output_dir, bundle_name \o ".pdf")

\* lines 499-503: one message per document whose file does not exist; the
\* mutant stops at the first missing document
RECURSIVE MissingDocumentsFailFast(_)
MissingDocumentsFailFast(documents) ==
    IF documents = <<>> THEN <<>>
    ELSE IF ~Exists(Head(documents).file_path)
    THEN <<"Document not found: " \o Head(documents).file_path>>
    ELSE MissingDocumentsFailFast(Tail(documents))

RECURSIVE MissingDocuments(_)
MissingDocuments(documents) ==
    IF documents = <<>> THEN <<>>
    ELSE (IF ~Exists(Head(documents).file_path)
          THEN <<"Document not found: " \o Head(documents).file_path>>
          ELSE <<>>) \o MissingDocuments(Tail(documents))

\* lib.rs lines 301-341, the Tauri command compile_bundle: an empty exhibit
\* list is answered by the command itself; otherwise bundle::compile_bundle
\* is called with the exhibits' documents
CommandWithoutLock(k) ==
    /\ inv[k].pc = "command"
    /\ db' = db
    /\ IF ~db.pool
       THEN inv' = [inv EXCEPT ![k].pc = "failed",
                               ![k].result = Err("Database not initialized")]
       ELSE IF inv[k].documents = <<>>
       THEN inv' = [inv EXCEPT ![k].pc = "returned",
                      ![k].result = Ok(CompileResult(FALSE, None, <<>>, 0,
                        <<"No documents in bundle. Add documents to the Master Index first.">>,
                        <<>>))]
       ELSE inv' = [inv EXCEPT ![k].pc = "start"]
    /\ UNCHANGED <<plan, val, fs, owner>>

\* state.db.lock().await (line 305) waits until no guard is held; db_guard
\* lives until the command returns.  The mutant above takes no lock.
Command(k) ==
    /\ inv[k].pc = "command"
    /\ db.guard = None
    /\ db' = [db EXCEPT !.guard = Some(k)]
    /\ IF ~db.pool
       THEN inv' = [inv EXCEPT ![k].pc = "failed",
                               ![k].result = Err("Database not initialized")]
       ELSE IF inv[k].documents = <<>>
       THEN inv' = [inv EXCEPT ![k].pc = "returned",
                      ![k].result = Ok(CompileResult(FALSE, None, <<>>, 0,
                        <<"No documents in bundle. Add documents to the Master Index first.">>,
                        <<>>))]
       ELSE inv' = [inv EXCEPT ![k].pc = "start"]
    /\ UNCHANGED <<plan, val, fs, owner>>

\* the command returns what it or bundle::compile_bundle produced (lines
\* 306, 312, 340) and db_guard is dropped
ReleaseGuard(k) ==
    /\ db.guard = Some(k)
    /\ inv[k].pc \in {"returned", "failed"}
    /\ db' = [db EXCEPT !.guard = None]
    /\ UNCHANGED <<plan, val, fs, inv, owner>>

\* lines 491-525: bundle::compile_bundle is entered; create the output
\* directory, check the documents.  The mutant lets an empty list through.
PrecheckEmptyProceeds(k) ==
    /\ inv[k].pc = "start"
    /\ LET errors == MissingDocuments(inv[k].documents)
       IN IF errors # <<>>
          THEN inv' = [inv EXCEPT ![k].pc = "returned", ![k].entered = TRUE,
                         ![k].result = Ok(CompileResult(FALSE, None, <<>>, 0, errors, <<>>))]
          ELSE inv' = [inv EXCEPT ![k].pc = "toc", ![k].entered = TRUE]
    /\ UNCHANGED <<plan, val, fs, db, owner>>

Precheck(k) ==
    /\ inv[k].pc = "start"
    /\ LET errors == MissingDocuments(inv[k].documents)
       IN IF errors # <<>>
          THEN inv' = [inv EXCEPT ![k].pc = "returned", ![k].entered = TRUE,
                         ![k].result = Ok(CompileResult(FALSE, None, <<>>, 0, errors, <<>>))]
          ELSE IF inv[k].documents = <<>>
          THEN inv' = [inv EXCEPT ![k].pc = "returned", ![k].entered = TRUE,
                         ![k].result = Ok(CompileResult(FALSE, None, <<>>, 0,
                                            <<"No documents to compile">>, <<>>))]
          ELSE inv' = [inv EXCEPT ![k].pc = "toc", ![k].entered = TRUE]
    /\ UNCHANGED <<plan, val, fs, db, owner>>

\* lines 534-538 and 547-549: total_pages is the end_page of the last entry,
\* or the fallback when there is no entry; the mutant leaves the TOC out
TotalPagesWithoutToc(entries, fallback) ==
    IF entries # <<>> THEN Last(entries).end_page - (entries[1].start_page - 1)
    ELSE fallback

TotalPages(entries, fallback) ==
    IF entries # <<>> THEN Last(entries).end_page ELSE fallback

\* lines 545-553: if the rendered TOC has another page count than the one
\* the entries were planned with, the entries are planned again from the
\* rendered count and total_pages follows them; the mutant keeps the first plan
ReplanKeepsFirst(documents, toc_entries, total_pages, toc_page_count, actual_toc_pages) ==
    [toc_entries |-> toc_entries, total_pages |-> total_pages]

Replan(documents, toc_entries, total_pages, toc_page_count, actual_toc_pages) ==
    IF actual_toc_pages # toc_page_count
    THEN LET new_entries == calculate_toc_preview(documents, actual_toc_pages)
         IN [toc_entries |-> new_entries,
             total_pages |-> TotalPages(new_entries, total_pages)]
    ELSE [toc_entries |-> toc_entries, total_pages |-> total_pages]

\* lines 527-556: estimate, plan, render the TOC once, re-plan once if the
\* rendered page count differs from the estimate.  Writing the file can fail
\* (lines 210-212, saved = FALSE); the `?` of line 542 then returns the error.
GenerateToc(k) ==
    /\ inv[k].pc = "toc"
    /\ LET documents == inv[k].documents
           toc_page_count == estimate_toc_pages(Len(documents))
           first_entries == calculate_toc_preview(documents, toc_page_count)
           first_total == TotalPages(first_entries, toc_page_count)
           toc_path == TocTempPath(inv[k].output_dir)
           actual_toc_pages == TocPageCount(first_entries)
           final == Replan(documents, first_entries, first_total,
                           toc_page_count, actual_toc_pages)
       IN \E saved \in BOOLEAN :
            IF ~saved
            THEN /\ inv' = [inv EXCEPT ![k].pc = "failed",
                                       ![k].result = Err("Failed to save TOC PDF")]
                 /\ fs' = fs
                 /\ owner' = owner
            ELSE /\ fs' = [fs EXCEPT ![toc_path] = TocDocument(first_entries)]
                 /\ owner' = [owner EXCEPT ![toc_path] = k]
                 /\ inv' = [inv EXCEPT
                              ![k].pc = IF documents = <<>> THEN "merge" ELSE "stamp",
                              ![k].toc_entries = final.toc_entries,
                              ![k].total_pages = final.total_pages,
                              ![k].actual_toc_pages = actual_toc_pages,
                              ![k].stamped_paths = <<toc_path>>,
                              ![k].i = 0]
    /\ UNCHANGED <<plan, val, db>>

\* the mutant goes on to the cleanup when a document does not load
StampDocumentFailureCleansUp(k) ==
    /\ inv[k].pc = "stamp"
    /\ LET i0 == inv[k].i
           doc == inv[k].documents[i0 + 1]
           entry == inv[k].toc_entries[i0 + 1]
           stamped_path == StampedPath(inv[k].output_dir, i0)
       IN \E saved \in BOOLEAN :
            IF ~Loadable(fs[doc.file_path])
            THEN /\ inv' = [inv EXCEPT ![k].pc = "cleanup"]
                 /\ fs' = fs
                 /\ owner' = owner
            ELSE IF ~saved
            THEN /\ inv' = [inv EXCEPT ![k].pc = "cleanup"]
                 /\ fs' = fs
                 /\ owner' = owner
            ELSE /\ fs' = [fs EXCEPT ![stamped_path] =
                             StampedDocument(fs[doc.file_path], entry.start_page,
                                             inv[k].total_pages, inv[k].pagination_style)]
                 /\ owner' = [owner EXCEPT ![stamped_path] = k]
                 /\ inv' = [inv EXCEPT
                              ![k].stamped_paths = Append(@, stamped_path),
                              ![k].i = i0 + 1,
                              ![k].pc = IF i0 + 1 = Len(inv[k].documents)
                                        THEN "merge" ELSE "stamp"]
    /\ UNCHANGED <<plan, val, db>>

\* lines 558-571, one turn of the loop: document i is loaded, stamped from
\* its entry's start_page and saved under its temporary name; a failed load
\* (line 450) or save (line 461) is returned by the `?` of line 568
StampDocument(k) ==
    /\ inv[k].pc = "stamp"
    /\ LET i0 == inv[k].i
           doc == inv[k].documents[i0 + 1]
           entry == inv[k].toc_entries[i0 + 1]
           stamped_path == StampedPath(inv[k].output_dir, i0)
       IN \E saved \in BOOLEAN :
            IF ~Loadable(fs[doc.file_path])
            THEN /\ inv' = [inv EXCEPT ![k].pc = "failed",
                                       ![k].result = Err("Failed to load PDF")]
                 /\ fs' = fs
                 /\ owner' = owner
            ELSE IF ~saved
            THEN /\ inv' = [inv EXCEPT ![k].pc = "failed",
                                       ![k].result = Err("Failed to save stamped PDF")]
                 /\ fs' = fs
                 /\ owner' = owner
            ELSE /\ fs' = [fs EXCEPT ![stamped_path] =
                             StampedDocument(fs[doc.file_path], entry.start_page,
                                             inv[k].total_pages, inv[k].pagination_style)]
                 /\ owner' = [owner EXCEPT ![stamped_path] = k]
                 /\ inv' = [inv EXCEPT
                              ![k].stamped_paths = Append(@, stamped_path),
                              ![k].i = i0 + 1,
                              ![k].pc = IF i0 + 1 = Len(inv[k].documents)
                                        THEN "merge" ELSE "stamp"]
    /\ UNCHANGED <<plan, val, db>>

\* lines 573-575 with merge_pdfs_simple (lines 218-297): every path is
\* loaded, the merged document is saved; a failed load (lines 229-243) or
\* save (line 294) is returned by the `?` of line 575.  read_foreign records
\* whether a file the merge reads was last written or removed by another
\* invocation.
Merge(k) ==
    /\ inv[k].pc = "merge"
    /\ LET pdf_paths == inv[k].stamped_paths
           merged_path == MergedPath(inv[k].output_dir, inv[k].bundle_name)
           foreign == \E j \in 1..Len(pdf_paths) : owner[pdf_paths[j]] # k
       IN \E saved \in BOOLEAN :
            IF pdf_paths = <<>>
            THEN /\ inv' = [inv EXCEPT ![k].pc = "failed",
                                       ![k].result = Err("No PDFs to merge")]
                 /\ fs' = fs
                 /\ owner' = owner
            ELSE IF \E j \in 1..Len(pdf_paths) : ~Loadable(fs[pdf_paths[j]])
            THEN /\ inv' = [inv EXCEPT ![k].pc = "failed",
                                       ![k].read_foreign = foreign,
                                       ![k].result = Err("Failed to load PDF")]
                 /\ fs' = fs
                 /\ owner' = owner
            ELSE IF ~saved
            THEN /\ inv' = [inv EXCEPT ![k].pc = "failed",
                                       ![k].read_foreign = foreign,
                                       ![k].result = Err("Failed to save merged PDF")]
                 /\ fs' = fs
                 /\ owner' = owner
            ELSE /\ fs' = [fs EXCEPT ![merged_path] =
                             MergedDocument([j \in 1..Len(pdf_paths) |-> fs[pdf_paths[j]]])]
                 /\ owner' = [owner EXCEPT ![merged_path] = k]
                 /\ inv' = [inv EXCEPT ![k].pc = "bookmarks",
                                       ![k].read_foreign = foreign]
    /\ UNCHANGED <<plan, val, db>>

\* lines 577-579 with add_bookmarks (lines 467-482): the merged file is
\* loaded and saved unchanged under the final name; a failed load (line
\* 473) or save (line 479) is returned by the `?` of line 579
AddBookmarks(k) ==
    /\ inv[k].pc = "bookmarks"
    /\ LET merged_path == MergedPath(inv[k].output_dir, inv[k].bundle_name)
           final_path == FinalPath(inv[k].output_dir, inv[k].bundle_name)
       IN \E saved \in BOOLEAN :
            IF ~Loadable(fs[merged_path])
            THEN /\ inv' = [inv EXCEPT ![k].pc = "failed",
                                       ![k].result = Err("Failed to load PDF")]
                 /\ fs' = fs
                 /\ owner' = owner
            ELSE IF ~saved
            THEN /\ inv' = [inv EXCEPT ![k].pc = "failed",
                                       ![k].result = Err("Failed to save PDF with bookmarks")]
                 /\ fs' = fs
                 /\ owner' = owner
            ELSE /\ fs' = [fs EXCEPT ![final_path] = fs[merged_path]]
                 /\ owner' = [owner EXCEPT ![final_path] = k]
                 /\ inv' = [inv EXCEPT ![k].pc = "cleanup"]
    /\ UNCHANGED <<plan, val, db>>

\* remove_file on each path in turn
RECURSIVE RemoveFiles(_, _)
RemoveFiles(files, paths) ==
    IF paths = <<>> THEN files
    ELSE RemoveFiles([files EXCEPT ![Head(paths)] = AbsentFile], Tail(paths))

\* the mutant leaves the merged file behind
CleanupPathsStampedOnly(stamped_paths, merged_path) == stamped_paths

\* lines 582-585: the paths remove_file is called on, in order
CleanupPaths(stamped_paths, merged_path) == Append(stamped_paths, merged_path)

\* lines 581-594: the temporary files and the merged file are removed and
\* the result is returned.  remove_file can fail on a file that is there
\* (failing); `let _ =` drops the error and the file stays.
Cleanup(k) ==
    /\ inv[k].pc = "cleanup"
    /\ LET merged_path == MergedPath(inv[k].output_dir, inv[k].bundle_name)
           final_path == FinalPath(inv[k].output_dir, inv[k].bundle_name)
           paths == CleanupPaths(inv[k].stamped_paths, merged_path)
           present == {paths[j] : j \in {j \in 1..Len(paths) : Exists(paths[j])}}
       IN \E failing \in SUBSET present :
             /\ fs' = RemoveFiles(fs, SelectSeq(paths, LAMBDA q : q \notin failing))
             /\ owner' = [q \in DOMAIN owner |->
                            IF q \in present \ failing THEN k ELSE owner[q]]
             /\ inv' = [inv EXCEPT
                          ![k].pc = "returned",
                          ![k].failed_removals = failing,
                          ![k].result = Ok(CompileResult(TRUE, Some(final_path),
                                              inv[k].toc_entries, inv[k].total_pages,
                                              <<>>, <<>>))]
    /\ UNCHANGED <<plan, val, db>>

----------------------------------------------------------------------------
(* SpecCompile: one compile_bundle call over a small file system *)

MaxCompileDocs == 2   \* longest document list given to compile_bundle

OutputDir == "out"

\* a plain name and the names the pipeline's own temporary files carry
BundleNames == {"bundle", "_toc_temp", "_doc_0_stamped"}

Formats == {"Page X of Y", "Page X", "X"}

\* what a source path can hold: nothing, a file that is no PDF, a one-page
\* PDF, a two-page PDF whose page objects are numbered in page order, and a
\* two-page PDF whose second page has the lower object number
Body(path, j) == <<"content of " \o path \o " page " \o ToString(j)>>

SourceFiles(path) ==
    {AbsentFile, CorruptFile,
     FlatPdf(<<3>>, <<Body(path, 1)>>),
     FlatPdf(<<3, 5>>, <<Body(path, 1), Body(path, 2)>>),
     FlatPdf(<<5, 3>>, <<Body(path, 1), Body(path, 2)>>)}

SourcePaths == {SrcName(i) : i \in 1..MaxCompileDocs}

OutputPaths ==
    {TocTempPath(OutputDir)}
    \cup {StampedPath(OutputDir, i) : i \in 0..(MaxCompileDocs - 1)}
    \cup {MergedPath(OutputDir, b) : b \in BundleNames}
    \cup {FinalPath(OutputDir, b) : b \in BundleNames}

\* the file systems in which the first n source paths hold something and
\* every other path is absent
FileSystems(n) ==
    {[p \in SourcePaths \cup OutputPaths |->
         IF \E i \in 1..n : p = SrcName(i)
         THEN files[CHOOSE i \in 1..n : p = SrcName(i)]
         ELSE AbsentFile] :
     files \in {f \in [1..n -> UNION {SourceFiles(SrcName(i)) : i \in 1..n}] :
                  \A i \in 1..n : f[i] \in SourceFiles(SrcName(i))}}

\* PaginationStyle::default() (lines 29-37), the style the command passes
DefaultFormat == "Page X of Y"

\* an invocation about to begin at pc: "command" for a call of the Tauri
\* command, "start" for a direct call of bundle::compile_bundle
InvocationIn(output_dir, pc, documents, bundle_name, format) ==
    [pc |-> pc, via |-> pc, entered |-> FALSE,
     documents |-> documents, output_dir |-> output_dir,
     bundle_name |-> bundle_name, pagination_style |-> format,
     toc_entries |-> <<>>, total_pages |-> 0, actual_toc_pages |-> 0,
     stamped_paths |-> <<>>, i |-> 0, result |-> Err(""),
     read_foreign |-> FALSE, failed_removals |-> {}]

Invocation(pc, documents, bundle_name, format) ==
    InvocationIn(OutputDir, pc, documents, bundle_name, format)

\* AppState.db once the application has set the pool up (or before that),
\* no command holding the guard
AppState(pool) == [pool |-> pool, guard |-> None]

\* a direct call of bundle::compile_bundle has nothing to do with the
\* database; a call of the command finds the pool set up or not
InitCompile ==
    /\ \E n \in 0..MaxCompileDocs :
         /\ fs \in FileSystems(n)
         /\ \/ /\ inv \in {<<Invocation("start", DocsOf(pcs), b, f)>> :
                        pcs \in [1..n -> 1..MaxPageCount], b \in BundleNames, f \in Formats}
               /\ db = AppState(TRUE)
            \/ /\ inv \in {<<Invocation("command", DocsOf(pcs), b, DefaultFormat)>> :
                        pcs \in [1..n -> 1..MaxPageCount], b \in BundleNames}
               /\ db \in {AppState(TRUE), AppState(FALSE)}
    /\ owner = [p \in DOMAIN fs |-> 0]
    /\ plan = [called |-> "none"]
    /\ val = [called |-> FALSE]

NextCompile ==
    \E k \in DOMAIN inv :
        \/ Command(k)
        \/ Precheck(k)
        \/ GenerateToc(k)
        \/ StampDocument(k)
        \/ Merge(k)
        \/ AddBookmarks(k)
        \/ Cleanup(k)
        \/ ReleaseGuard(k)

SpecCompile == InitCompile /\ [][NextCompile]_vars

----------------------------------------------------------------------------
(* Claims about the validator, checked under SpecValidate *)

ErrorsOfType(errors, t) == SelectSeq(errors, LAMBDA e : e.error_type = t)

\* the <<expected, actual>> pairs of a list of errors, in order
ExpectedActual(errors) ==
    [k \in 1..Len(errors) |-> <<errors[k].expected, errors[k].actual>>]

\* positions i >= 2 whose entry does not start on the page after entry i - 1
Discontinuities(l) == {i \in 2..Len(l) : l[i].start_page # l[i - 1].end_page + 1}

\* positions i >= 2 whose entry starts later than the page after entry i - 1
Gaps(l) == {i \in 2..Len(l) : l[i].start_page > l[i - 1].end_page + 1}

\* the <<expected, actual>> pairs of the gaps of l from position i on
RECURSIVE GapPairsFrom(_, _)
GapPairsFrom(l, i) ==
    IF i > Len(l) THEN <<>>
    ELSE (IF i \in Gaps(l)
          THEN << <<Some(l[i - 1].end_page + 1), Some(l[i].start_page)>> >>
          ELSE <<>>) \o GapPairsFrom(l, i + 1)

\* the <<expected, actual>> pairs of the entries with a wrong end_page
RECURSIVE MismatchPairs(_)
MismatchPairs(l) ==
    IF l = <<>> THEN <<>>
    ELSE (IF Head(l).start_page + Head(l).page_count - 1 # Head(l).end_page
          THEN << <<Some(Head(l).start_page + Head(l).page_count - 1),
                    Some(Head(l).end_page)>> >>
          ELSE <<>>) \o MismatchPairs(Tail(l))

\* C6 (as claimed): a pagination_gap error is reported for every index i >= 1
\* at which entry[i].start_page differs from entry[i-1].end_page + 1, for a
\* later start (gap) and for an earlier start (overlap) alike.
C6_GapOrOverlapReported ==
    val.called
    => \A i \in Discontinuities(val.toc_entries) :
          \E k \in 1..Len(val.result.errors) :
             /\ val.result.errors[k].error_type = "pagination_gap"
             /\ val.result.errors[k].expected = Some(val.toc_entries[i - 1].end_page + 1)
             /\ val.result.errors[k].actual = Some(val.toc_entries[i].start_page)

\* C7: exactly one pagination_gap error per index i >= 1 with
\* entry[i].start_page > entry[i-1].end_page + 1, carrying
\* expected = entry[i-1].end_page + 1 and actual = entry[i].start_page, and no
\* other pagination_gap error; with such an index the result is not valid.
C7_OneGapErrorPerGap ==
    val.called
    => /\ ExpectedActual(ErrorsOfType(val.result.errors, "pagination_gap"))
            = GapPairsFrom(val.toc_entries, 2)
       /\ \A k \in 1..Len(val.result.errors) :
             val.result.errors[k].error_type = "pagination_gap"
             => val.result.errors[k].page = val.result.errors[k].expected
       /\ Gaps(val.toc_entries) # {} => ~val.result.is_valid

C7_Witness ==
    /\ val.called
    /\ Len(val.toc_entries) = 2
    /\ val.toc_entries[1].start_page = 1
    /\ val.toc_entries[1].end_page = 1
    /\ val.toc_entries[2].start_page = 3
    /\ Len(ErrorsOfType(val.result.errors, "pagination_gap")) = 1
    /\ ~val.result.is_valid

WellFormedFromPage2(l) ==
    /\ l # <<>>
    /\ l[1].start_page >= 2
    /\ \A i \in 1..(Len(l) - 1) : l[i + 1].start_page = l[i].end_page + 1
    /\ \A i \in 1..Len(l) : l[i].end_page = l[i].start_page + l[i].page_count - 1

\* C8: a list whose first entry starts at page 2 or later, whose entries are
\* contiguous and each end at start_page + page_count - 1, validated with no
\* PDF at pdf_path, is valid with no errors.
C8_WellFormedIsValid ==
    (val.called /\ val.pdf = AbsentFile /\ WellFormedFromPage2(val.toc_entries))
    => val.result.is_valid /\ val.result.errors = <<>>

C8_Witness ==
    /\ val.called
    /\ val.pdf = AbsentFile
    /\ Len(val.toc_entries) = 2
    /\ WellFormedFromPage2(val.toc_entries)
    /\ val.result.is_valid

\* C9: a toc_overlap error is reported exactly when the list is non-empty and
\* its first entry has start_page < 2; there is one such error, with
\* expected = 2 and actual = that start_page; no later entry produces one.
C9_TocOverlapOnlyFirst ==
    val.called
    => ExpectedActual(ErrorsOfType(val.result.errors, "toc_overlap"))
         = IF val.toc_entries # <<>> /\ val.toc_entries[1].start_page < 2
           THEN << <<Some(2), Some(val.toc_entries[1].start_page)>> >>
           ELSE <<>>

\* both entries start before page 2, one toc_overlap is reported
C9_Witness ==
    /\ val.called
    /\ Len(val.toc_entries) = 2
    /\ val.toc_entries[1].start_page = 0
    /\ val.toc_entries[2].start_page = 1
    /\ Len(ErrorsOfType(val.result.errors, "toc_overlap")) = 1

\* C10: one page_count_mismatch error for each entry with
\* start_page + page_count - 1 # end_page (expected the former, actual the
\* latter), none for the other entries, whatever the rest of the list holds.
C10_OneMismatchPerEntry ==
    val.called
    => ExpectedActual(ErrorsOfType(val.result.errors, "page_count_mismatch"))
         = MismatchPairs(val.toc_entries)

\* a consistent entry between nothing and a wrong one, and two wrong entries
C10_Witness ==
    /\ val.called
    /\ Len(val.toc_entries) = 2
    /\ val.toc_entries[1].end_page # val.toc_entries[1].start_page + val.toc_entries[1].page_count - 1
    /\ val.toc_entries[2].end_page # val.toc_entries[2].start_page + val.toc_entries[2].page_count - 1
    /\ val.toc_entries[2].start_page = val.toc_entries[1].end_page + 1
    /\ Len(ErrorsOfType(val.result.errors, "page_count_mismatch")) = 2

\* C11: every ValidationResult validate_pagination returns has is_valid
\* true exactly when its errors list is empty; a warning (an entry of more than
\* 100 pages, a PDF that does not load) never changes is_valid.
C11_ValidIffNoErrors ==
    val.called => (val.result.is_valid <=> val.result.errors = <<>>)

\* a valid result that carries both kinds of warning
C11_Witness ==
    /\ val.called
    /\ val.pdf = CorruptFile
    /\ \E i \in 1..Len(val.toc_entries) : val.toc_entries[i].page_count > 100
    /\ Len(val.result.warnings) = 2
    /\ val.result.errors = <<>>
    /\ val.result.is_valid

\* the <<expected, actual>> pair a PDF that loads is held to: none when its
\* page count is the last entry's end_page
TotalMismatchPairs(l, pdf) ==
    IF Len(GetPages(pdf)) # l[Len(l)].end_page
    THEN << <<Some(l[Len(l)].end_page), Some(Len(GetPages(pdf)))>> >>
    ELSE <<>>

\* C12: when the PDF at pdf_path exists and loads, a total_page_mismatch error
\* is reported if and only if its page count differs from the last entry's
\* end_page; when it exists but does not load, a warning is added and no
\* error; when it does not exist, neither is added.
C12_TotalMismatchIffLoaded ==
    val.called
    => LET total == ErrorsOfType(val.result.errors, "total_page_mismatch")
           could_not == SelectSeq(val.result.warnings,
                                  LAMBDA w : w = "Could not validate PDF")
       IN /\ (Loadable(val.pdf) /\ val.toc_entries # <<>>)
             => /\ ExpectedActual(total) = TotalMismatchPairs(val.toc_entries, val.pdf)
                /\ could_not = <<>>
          /\ val.pdf = CorruptFile => (total = <<>> /\ Len(could_not) = 1)
          /\ val.pdf = AbsentFile => (total = <<>> /\ could_not = <<>>)

\* a PDF that loads with fewer pages than the last entry's end_page
C12_Witness ==
    /\ val.called
    /\ Loadable(val.pdf)
    /\ Len(val.toc_entries) = 2
    /\ val.toc_entries[2].end_page = Len(GetPages(val.pdf)) + 1
    /\ Len(ErrorsOfType(val.result.errors, "total_page_mismatch")) = 1

----------------------------------------------------------------------------
(* Claims about the pipeline, checked under SpecCompile *)

\* the content of each page of a document, in page order
PageContents(doc) ==
    [q \in 1..Len(GetPages(doc)) |-> ExistingContent(doc, GetPages(doc)[q])]

\* the label a page numbered x of y carries under a format
PageLabel(format, x, y) ==
    IF format = "Page X" THEN "Page " \o ToString(x)
    ELSE IF format = "X" THEN ToString(x)
    ELSE "Page " \o ToString(x) \o " of " \o ToString(y)

\* the invocations that have returned a CompileResult
ReturnedOk == {k \in DOMAIN inv : inv[k].pc = "returned"}

Succeeded == {k \in ReturnedOk : inv[k].result.value.success}

\* C3 (as claimed): a result with success = true has pdf_path =
\* Some("{output_dir}/{bundle_name}.pdf") and that file exists when the call
\* returns, for every bundle_name; a result with success = false has
\* pdf_path = None and a non-empty errors list.
C3_ResultNamesExistingFile ==
    \A k \in ReturnedOk :
       LET r == inv[k].result.value
           named == inv[k].output_dir \o "/" \o inv[k].bundle_name \o ".pdf"
       IN /\ r.success => (r.pdf_path = Some(named) /\ fs[named].kind # "absent")
          /\ ~r.success => (r.pdf_path = None /\ r.errors # <<>>)

\* every document's supplied page_count is the page count of its file
PageCountsAreReal(k) ==
    \A i \in 1..Len(inv[k].documents) :
       /\ Loadable(fs[inv[k].documents[i].file_path])
       /\ Len(GetPages(fs[inv[k].documents[i].file_path])) = inv[k].documents[i].page_count

\* C4 (as claimed): in a successful run whose page counts are the real ones,
\* page j (0-based) of document i is stamped toc_entries[i].start_page + j,
\* that number is the page's 1-based position in the final PDF, and the
\* total on the label is CompileResult.total_pages.
C4_StampIsFinalPosition ==
    \A k \in Succeeded :
       LET r == inv[k].result.value
           final == fs[Unwrap(r.pdf_path)]
       IN (PageCountsAreReal(k) /\ Loadable(final))
          => \A i \in 1..Len(inv[k].documents) :
                LET source == fs[inv[k].documents[i].file_path]
                IN \A j \in 0..(Len(GetPages(source)) - 1) :
                      LET q == r.toc_entries[i].start_page + j
                      IN /\ q \in 1..Len(GetPages(final))
                         /\ PageContents(final)[q]
                              = PageContents(source)[j + 1]
                                \o <<"\n",
                                     StampOps(PageLabel(inv[k].pagination_style, q,
                                                        r.total_pages)),
                                     "\n">>

\* the content ends with a label for some page number up to max_number
CarriesLabel(content, format, total_pages, max_number) ==
    /\ Len(content) >= 3
    /\ \E x \in 1..max_number :
          SubSeq(content, Len(content) - 2, Len(content))
            = <<"\n", StampOps(PageLabel(format, x, total_pages)), "\n">>

\* C5 (as claimed): the pages of the generated TOC are stamped like the pages
\* of the source documents, so every page of the final bundle carries a label.
C5_EveryPageCarriesLabel ==
    \A k \in Succeeded :
       LET r == inv[k].result.value
           final == fs[Unwrap(r.pdf_path)]
       IN Loadable(final)
          => \A q \in 1..Len(GetPages(final)) :
                CarriesLabel(PageContents(final)[q], inv[k].pagination_style,
                             r.total_pages, r.total_pages + Len(GetPages(final)))

\* the documents of invocation k whose files do not exist; the source files
\* are never written, so this is the same at the call and at the return
MissingAt(k) ==
    SelectSeq(inv[k].documents, LAMBDA d : fs[d.file_path] = AbsentFile)

SuppliedPageCounts(k) ==
    [i \in 1..Len(inv[k].documents) |-> inv[k].documents[i].page_count]

\* C15: on every successful compile_bundle, CompileResult.total_pages equals
\* the end_page of the last returned TOC entry, which equals
\* (TOC page count) + sum of all documents' page_count.
C15_TotalIsTocPlusDocuments ==
    \A k \in Succeeded :
       LET r == inv[k].result.value
       IN /\ r.toc_entries # <<>>
          /\ r.total_pages = Last(r.toc_entries).end_page
          /\ Last(r.toc_entries).end_page
               = inv[k].actual_toc_pages + SumSeq(SuppliedPageCounts(k))

\* page counts 2 and 1 behind a one-page TOC: entries 2-3 and 4-4, 4 pages
C15_Witness ==
    \E k \in Succeeded :
       /\ SuppliedPageCounts(k) = <<2, 1>>
       /\ inv[k].actual_toc_pages = 1
       /\ inv[k].result.value.toc_entries[1].start_page = 2
       /\ inv[k].result.value.toc_entries[1].end_page = 3
       /\ inv[k].result.value.toc_entries[2].start_page = 4
       /\ inv[k].result.value.total_pages = 4

\* the page contents of a list of documents, one after the other
RECURSIVE AllPageContents(_)
AllPageContents(docs) ==
    IF docs = <<>> THEN <<>>
    ELSE PageContents(Head(docs)) \o AllPageContents(Tail(docs))

\* the Count entry of the root Pages node
RootCount(doc) == doc.objects[Unwrap(RootPagesRef(doc))].dict["Count"].n

\* C16 (as claimed): merge_pdfs_simple over inputs d1..dN produces a base
\* graph whose root Kids lists every page of every input and whose root Count
\* equals the sum of the inputs' page counts; pages appear grouped by document
\* in input order and, within each document, in that document's own page
\* order.
C16_MergeKeepsPageOrder ==
    \A k \in DOMAIN inv :
       inv[k].pc = "bookmarks"
       => LET inputs == [j \in 1..Len(inv[k].stamped_paths) |-> fs[inv[k].stamped_paths[j]]]
              merged == fs[MergedPath(inv[k].output_dir, inv[k].bundle_name)]
          IN /\ Loadable(merged)
             /\ RootCount(merged) = Len(AllPageContents(inputs))
             /\ PageContents(merged) = AllPageContents(inputs)

\* the document list without the late inserts at 0-based indices p+1..p+c
WithoutInserted(documents, p, c) ==
    SelectSeq([i \in 1..Len(documents) |-> [doc |-> documents[i], i0 |-> i - 1]],
              LAMBDA x : ~(x.i0 > p /\ x.i0 <= p + c))

\* C19 (as claimed): with insert_after = Some(p) and insert_count = c, every
\* document after the inserted block (indices p+1..p+c) gets the start_page and
\* end_page it would get from calculate_toc_preview run over the document list
\* without the inserted documents.
C19_LaterNumberingUntouched ==
    (plan.called = "calculate_toc_with_subnumbers" /\ IsSome(plan.args.insert_after))
    => LET p == Unwrap(plan.args.insert_after)
           c == plan.args.insert_count
           kept == WithoutInserted(plan.args.documents, p, c)
           preview == calculate_toc_preview([j \in 1..Len(kept) |-> kept[j].doc],
                                            plan.args.toc_page_count)
       IN \A j \in 1..Len(kept) :
             kept[j].i0 > p + c
             => /\ plan.entries[kept[j].i0 + 1].start_page = preview[j].start_page
                /\ plan.entries[kept[j].i0 + 1].end_page = preview[j].end_page

\* C20: with insert_after = Some(p) and insert_count = c <= 26, the documents
\* at indices p+1..p+c receive the labels 'Tab {p+1}A', 'Tab {p+1}B', ... in
\* order, pairwise distinct, and every other document receives a plain
\* 'Tab {k}' label with no letter suffix, k its 1-based position.
C20_InsertedLabels ==
    (/\ plan.called = "calculate_toc_with_subnumbers"
     /\ IsSome(plan.args.insert_after)
     /\ plan.args.insert_count <= 26)
    => LET p == Unwrap(plan.args.insert_after)
           c == plan.args.insert_count
           inserted == {i \in 1..Len(plan.entries) : i - 1 > p /\ i - 1 <= p + c}
       IN /\ \A i \in inserted :
                plan.entries[i].label
                  = "Tab " \o ToString(p + 1) \o Alphabet[i - 1 - p]
          /\ \A i, j \in inserted :
                i # j => plan.entries[i].label # plan.entries[j].label
          /\ \A i \in (1..Len(plan.entries)) \ inserted :
                plan.entries[i].label = "Tab " \o ToString(i)

\* 26 late inserts after the first document: 'Tab 1A' .. 'Tab 1Z', then a
\* plain label
C20_Witness ==
    /\ plan.called = "calculate_toc_with_subnumbers"
    /\ plan.args.insert_after = Some(0)
    /\ plan.args.insert_count = 26
    /\ Len(plan.entries) = 28
    /\ plan.entries[2].label = "Tab 1A"
    /\ plan.entries[27].label = "Tab 1Z"
    /\ plan.entries[28].label = "Tab 28"

----------------------------------------------------------------------------
(* SpecNumeric: SubPageNumber::new and estimate_toc_pages applied to        *)
(* bounded inputs, small ones and ones at the edges of u8 and f32           *)

SubPageInputs ==
    {[f |-> "SubPageNumber::new", base_page |-> b, index |-> x,
      called |-> FALSE, result |-> ""] : b \in 0..MaxBasePage, x \in 0..MaxIndex}

EstimateInputs ==
    {[f |-> "estimate_toc_pages", document_count |-> n,
      called |-> FALSE, result |-> 0] :
        n \in (0..MaxDocumentCount)
               \cup {Pow2(F32MantissaBits) + d : d \in 0..MaxDocumentCount}}

InitNumeric ==
    /\ plan \in SubPageInputs \cup EstimateInputs
    /\ val = [called |-> FALSE]
    /\ fs = <<>>
    /\ inv = <<>>
    /\ db = NoAppState
    /\ owner = <<>>

CallSubPageNumber ==
    /\ plan.f = "SubPageNumber::new"
    /\ ~plan.called
    /\ plan' = [plan EXCEPT
                  !.called = TRUE,
                  !.result = SubPageNumberToString(
                                 SubPageNumberNew(plan.base_page, plan.index))]
    /\ UNCHANGED <<val, fs, inv, db, owner>>

CallEstimateTocPages ==
    /\ plan.f = "estimate_toc_pages"
    /\ ~plan.called
    /\ plan' = [plan EXCEPT !.called = TRUE,
                            !.result = estimate_toc_pages(plan.document_count)]
    /\ UNCHANGED <<val, fs, inv, db, owner>>

NextNumeric == CallSubPageNumber \/ CallEstimateTocPages

SpecNumeric == InitNumeric /\ [][NextNumeric]_vars

\* C17 (as claimed): for all base >= 0 and all idx >= 0, including idx > 25
\* and idx >= 256, SubPageNumber::new(base, idx).to_string() is the decimal of
\* base followed by the letter 'A' + min(idx, 25): indices beyond 25 clamp to
\* 'Z' and never wrap around to an earlier letter.
C17_SuffixClampsAtZ ==
    (plan.f = "SubPageNumber::new" /\ plan.called)
    => plan.result = ToString(plan.base_page) \o Alphabet[Min(plan.index, 25) + 1]

\* the least q with q * d >= n; it is n \div d or the integer after it
CeilDiv(n, d) ==
    CHOOSE q \in (n \div d)..(n \div d + 1) : q * d >= n /\ (q - 1) * d < n

\* C18 (as claimed): estimate_toc_pages(n) = max(1, ceil(n / 25)) for every
\* n >= 0.
C18_EstimateIsCeil ==
    (plan.f = "estimate_toc_pages" /\ plan.called)
    => plan.result = Max(1, CeilDiv(plan.document_count, 25))

\* C28 (as claimed): for every n >= 1 the page count generate_toc_pdf
\* returns for n entries (a new page whenever i > 0 and i % 25 = 0) equals
\* estimate_toc_pages(n), so that the re-flow branch of compile_bundle is
\* never taken and the start pages printed in the TOC are the returned ones.
C28_RenderedEqualsEstimate ==
    (plan.f = "estimate_toc_pages" /\ plan.called /\ plan.document_count >= 1)
    => plan.result = TocPageOfEntry(plan.document_count - 1)

----------------------------------------------------------------------------
(* SpecAliased: one compile_bundle call whose document list names a file   *)
(* inside the output directory, under a name the pipeline itself uses      *)

AliasPaths ==
    {TocTempPath(OutputDir), StampedPath(OutputDir, 0),
     MergedPath(OutputDir, "bundle"), FinalPath(OutputDir, "bundle")}

\* the aliased document alone, or behind an ordinary one-page document
AliasedDocuments ==
    {<<BundleDocument(a, c)>> : a \in AliasPaths, c \in 1..MaxPageCount}
    \cup {<<BundleDocument(SrcName(1), 1), BundleDocument(a, c)>> :
            a \in AliasPaths, c \in 1..MaxPageCount}

\* the file systems for a document list: SrcName(1) holds a one-page PDF
\* when listed, the aliased path holds any of the source files
AliasedFileSystems(documents) ==
    {[p \in SourcePaths \cup OutputPaths |->
         IF p = Last(documents).file_path THEN file
         ELSE IF p = documents[1].file_path
         THEN FlatPdf(<<3>>, <<Body(p, 1)>>)
         ELSE AbsentFile] :
     file \in SourceFiles(Last(documents).file_path)}

InitAliased ==
    /\ \E documents \in AliasedDocuments :
         /\ fs \in AliasedFileSystems(documents)
         /\ \/ /\ inv \in {<<Invocation("start", documents, b, f)>> :
                             b \in BundleNames, f \in Formats}
               /\ db = AppState(TRUE)
            \/ /\ inv \in {<<Invocation("command", documents, b, DefaultFormat)>> :
                             b \in BundleNames}
               /\ db \in {AppState(TRUE), AppState(FALSE)}
    /\ owner = [p \in DOMAIN fs |-> 0]
    /\ plan = [called |-> "none"]
    /\ val = [called |-> FALSE]

SpecAliased == InitAliased /\ [][NextCompile]_vars

\* C21 (as claimed): compile_bundle only reads the source documents: for any
\* input, including any file_path values and any output_dir / bundle_name, no
\* file at a BundleDocument.file_path is created, overwritten or deleted by
\* the pipeline's stamping, merge, bookmark or cleanup steps.
C21_SourcesOnlyRead ==
    \A k \in DOMAIN inv :
       \A i \in 1..Len(inv[k].documents) :
          owner[inv[k].documents[i].file_path] = 0

----------------------------------------------------------------------------
(* SpecConcurrent: two compile_bundle invocations, each a call of the      *)
(* command or a direct call of bundle::compile_bundle, their steps          *)
(* interleaved.  Each compiles its own one-page document.                   *)

\* a second directory for direct calls; the command always uses OutputDir
OtherDir == "other"

ConcurrentNames == {"bundle", "second"}

\* every path the two invocations can write
ConcurrentOutputPaths ==
    UNION {{TocTempPath(d), StampedPath(d, 0)}
           \cup {MergedPath(d, b) : b \in ConcurrentNames}
           \cup {FinalPath(d, b) : b \in ConcurrentNames} : d \in {OutputDir, OtherDir}}

\* the invocations that can run as number k: a call of the command, or a
\* direct call with an output directory of the caller's choice
ConcurrentInvocations(k) ==
    {InvocationIn(d, "start", <<BundleDocument(SrcName(k), 1)>>, b, DefaultFormat) :
        d \in {OutputDir, OtherDir}, b \in ConcurrentNames}
    \cup {InvocationIn(OutputDir, "command", <<BundleDocument(SrcName(k), 1)>>, b,
                       DefaultFormat) : b \in ConcurrentNames}

InitConcurrent ==
    /\ inv \in {<<a, b>> : a \in ConcurrentInvocations(1), b \in ConcurrentInvocations(2)}
    /\ fs = [p \in {SrcName(1), SrcName(2)} \cup ConcurrentOutputPaths |->
               IF p \in {SrcName(1), SrcName(2)}
               THEN FlatPdf(<<3>>, <<Body(p, 1)>>)
               ELSE AbsentFile]
    /\ owner = [p \in DOMAIN fs |-> 0]
    /\ db = AppState(TRUE)
    /\ plan = [called |-> "none"]
    /\ val = [called |-> FALSE]

SpecConcurrent == InitConcurrent /\ [][NextCompile]_vars

\* the paths compile_bundle writes for an output directory and bundle name
PathsOf(output_dir, bundle_name) ==
    {TocTempPath(output_dir), StampedPath(output_dir, 0),
     MergedPath(output_dir, bundle_name), FinalPath(output_dir, bundle_name)}

InPipeline(k) == inv[k].pc \in {"start", "toc", "stamp", "merge", "bookmarks", "cleanup"}

\* C30: the compile_bundle Tauri command acquires the application's database
\* mutex before reading the exhibits and holds it until
\* bundle::compile_bundle returns, so two command invocations never run the
\* compilation pipeline at the same time and their temp-file writes in the
\* shared casepilot_bundles directory cannot interleave.
C30_CommandsSerialized ==
    \A k \in DOMAIN inv : \A other \in DOMAIN inv \ {k} :
       (inv[k].via = "command" /\ inv[other].via = "command")
       => /\ InPipeline(k) => (db.guard = Some(k) /\ ~InPipeline(other))
          /\ ~inv[k].read_foreign

\* one command is in its merge step while the other waits for the mutex
C30_Witness ==
    /\ inv[1].via = "command" /\ inv[2].via = "command"
    /\ inv[1].pc = "merge"
    /\ inv[2].pc = "command"
    /\ db.guard = Some(1)

----------------------------------------------------------------------------
(* Claims about the order of the pipeline's steps, checked under SpecCompile *)

\* the step invocation k takes from this state to the next is one the
\* sequence of compile_bundle allows
StepInOrder(k) ==
    LET a == inv[k]
        b == inv'[k]
        n == Len(a.documents)
    IN \/ b = a /\ (a.pc \notin {"returned", "failed"} \/ (fs' = fs /\ owner' = owner))
       \/ a.pc = "command" /\ b.pc \in {"start", "returned", "failed"}
       \/ a.pc = "start" /\ b.pc \in {"toc", "returned"}
       \/ a.pc = "toc" /\ b.pc = "stamp" /\ b.i = 0
             /\ b.stamped_paths = <<TocTempPath(a.output_dir)>>
       \/ /\ a.pc = "stamp"
          /\ b.i = a.i + 1
          /\ b.stamped_paths = Append(a.stamped_paths, StampedPath(a.output_dir, a.i))
          /\ b.pc = (IF b.i = n THEN "merge" ELSE "stamp")
       \/ a.pc = "merge" /\ b.pc = "bookmarks"
       \/ a.pc = "bookmarks" /\ b.pc = "cleanup"
       \/ a.pc = "cleanup" /\ b.pc = "returned" /\ b.result.ok
       \/ /\ a.pc \in {"toc", "stamp", "merge", "bookmarks"}
          /\ b.pc = "failed"
          /\ ~b.result.ok
          /\ fs' = fs
          /\ owner' = owner

\* C23: every execution of compile_bundle performs its steps in the fixed
\* order precondition check, TOC estimate, TOC render, optional re-flow,
\* stamping of documents 0..n-1 in index order, merge, bookmark pass, cleanup;
\* if TOC render, stamping, merge or bookmark fails, the call returns Err
\* immediately and no later step (cleanup included) is executed: nothing is
\* written or removed by the failing step or after it.
C23_StepsInOrder == [][\A k \in DOMAIN inv : StepInOrder(k)]_vars

\* the second document's stamping has failed: the TOC and the first stamped
\* document are still there
C23_Witness ==
    /\ inv[1].pc = "failed"
    /\ inv[1].i = 1
    /\ ~inv[1].result.ok
    /\ Exists(TocTempPath(OutputDir))
    /\ Exists(StampedPath(OutputDir, 0))

\* C27: after a successful compile_bundle in which every deletion succeeded
\* none of _toc_temp.pdf, _doc_{i}_stamped.pdf for 0 <= i < n and
\* {bundle_name}_merged.pdf remains in the output directory; deletion
\* failures do not change the returned result, which is the successful
\* CompileResult with the final path, the entries and the total.
C27_IntermediatesRemoved ==
    \A k \in DOMAIN inv :
       inv[k].pc = "returned" /\ inv[k].result.ok /\ inv[k].result.value.success
       => /\ inv[k].result =
               Ok(CompileResult(TRUE,
                                Some(FinalPath(inv[k].output_dir, inv[k].bundle_name)),
                                inv[k].toc_entries, inv[k].total_pages, <<>>, <<>>))
          /\ inv[k].failed_removals = {}
             => /\ ~Exists(TocTempPath(inv[k].output_dir))
                /\ \A i \in 0..(Len(inv[k].documents) - 1) :
                      ~Exists(StampedPath(inv[k].output_dir, i))
                /\ ~Exists(MergedPath(inv[k].output_dir, inv[k].bundle_name))

\* a successful run of two documents whose deletions all succeeded
C27_Witness ==
    /\ inv[1].pc = "returned" /\ inv[1].result.ok /\ inv[1].result.value.success
    /\ Len(inv[1].documents) = 2
    /\ inv[1].failed_removals = {}
    /\ Exists(FinalPath(OutputDir, inv[1].bundle_name))

\* a successful run in which the merged file could not be removed
C27_WitnessFailedRemoval ==
    /\ inv[1].pc = "returned" /\ inv[1].result.ok /\ inv[1].result.value.success
    /\ MergedPath(OutputDir, inv[1].bundle_name) \in inv[1].failed_removals
    /\ Exists(MergedPath(OutputDir, inv[1].bundle_name))

----------------------------------------------------------------------------
(* SpecReflow: lines 527-553 of compile_bundle as two steps, the page     *)
(* count returned by generate_toc_pdf being an input.  In the pipeline of  *)
(* SpecCompile the rendered count equals the estimate for every list that  *)
(* fits the bounds, so the re-flow branch is exercised here.               *)

\* the document lists compile_bundle lets through its precondition check,
\* each with a page count for generate_toc_pdf to return
ReflowInputs ==
    [documents : {DocsOf(pcs) : pcs \in SeqUpTo(1..MaxPageCount, MaxDocs) \ {<<>>}},
     actual_toc_pages : 1..(MaxTocBudget + 1)]

InitReflow ==
    /\ plan \in {[args |-> a, called |-> "none", toc_page_count |-> 0,
                  entries |-> <<>>, total_pages |-> 0, renders |-> 0] :
                 a \in ReflowInputs}
    /\ val = [called |-> FALSE]
    /\ fs = <<>>
    /\ inv = <<>>
    /\ db = NoAppState
    /\ owner = <<>>

\* lines 527-538: estimate, first plan, total
PlanToc ==
    /\ plan.called = "none"
    /\ LET toc_page_count == estimate_toc_pages(Len(plan.args.documents))
           toc_entries == calculate_toc_preview(plan.args.documents, toc_page_count)
       IN plan' = [plan EXCEPT
                     !.called = "planned",
                     !.toc_page_count = toc_page_count,
                     !.entries = toc_entries,
                     !.total_pages = TotalPages(toc_entries, toc_page_count)]
    /\ UNCHANGED <<val, fs, inv, db, owner>>

\* lines 540-553: generate_toc_pdf is called once and returns
\* actual_toc_pages; the entries are planned again if it differs
RenderToc ==
    /\ plan.called = "planned"
    /\ LET final == Replan(plan.args.documents, plan.entries, plan.total_pages,
                           plan.toc_page_count, plan.args.actual_toc_pages)
       IN plan' = [plan EXCEPT
                     !.called = "rendered",
                     !.renders = @ + 1,
                     !.entries = final.toc_entries,
                     !.total_pages = final.total_pages]
    /\ UNCHANGED <<val, fs, inv, db, owner>>

NextReflow == PlanToc \/ RenderToc

SpecReflow == InitReflow /\ [][NextReflow]_vars

\* the entries are consecutive ranges of the documents' lengths from first on
RangesFrom(entries, documents, first) ==
    /\ Len(entries) = Len(documents)
    /\ \A i \in 1..Len(entries) :
          /\ entries[i].start_page =
                first + SumSeq([j \in 1..(i - 1) |-> documents[j].page_count])
          /\ entries[i].end_page = entries[i].start_page + documents[i].page_count - 1

\* C24: compile_bundle renders the TOC exactly once and recomputes the
\* document ranges at most once: if the rendered TOC page count differs from
\* the estimate, the returned toc_entries and total_pages (from which the
\* documents are stamped) are those computed from the actual count, so the
\* first returned entry starts at actual_toc_pages + 1; no further render or
\* recomputation happens.
C24_ReflowOnceFromActual ==
    plan.called = "rendered"
    => /\ plan.renders = 1
       /\ ~ENABLED NextReflow
       /\ plan.args.actual_toc_pages # plan.toc_page_count
          => /\ plan.entries[1].start_page = plan.args.actual_toc_pages + 1
             /\ RangesFrom(plan.entries, plan.args.documents,
                           plan.args.actual_toc_pages + 1)
             /\ plan.total_pages = Last(plan.entries).end_page

\* an estimate of one page, two pages rendered, two documents re-planned
C24_Witness ==
    /\ plan.called = "rendered"
    /\ plan.toc_page_count = 1
    /\ plan.args.actual_toc_pages = 2
    /\ Len(plan.args.documents) = 2
    /\ plan.entries[1].start_page = 3

----------------------------------------------------------------------------
(* SpecMerge: merge_pdfs_simple applied to lists of small documents *)

MaxMergeDocs == 3   \* longest list of paths given to merge_pdfs_simple

\* a one-page PDF whose objects refer to each other at every nesting depth:
\* the page's Resources hold a dictionary in a dictionary, its Annots an
\* array of dictionaries, the content stream's dictionary gives its Length
\* as a reference, one object has generation 1, and one reference (to
\* object 2 of generation 7) names no object of the document
NestedPdf ==
    Document(
        (ObjectId(1, 0) :> Dictionary([Type |-> Name("Catalog"),
                                       Pages |-> Reference(ObjectId(2, 0))]))
        @@ (ObjectId(2, 0) :> Dictionary([Type |-> Name("Pages"),
                                          Kids |-> Array(<<Reference(ObjectId(3, 0))>>),
                                          Count |-> Integer(1)]))
        @@ (ObjectId(3, 0) :>
               Dictionary([Type |-> Name("Page"),
                           Parent |-> Reference(ObjectId(2, 0)),
                           Contents |-> Reference(ObjectId(4, 0)),
                           Resources |-> Dictionary([Font |->
                               Dictionary([F1 |-> Reference(ObjectId(6, 0))])]),
                           Annots |-> Array(<<Dictionary([A |-> Reference(ObjectId(7, 1)),
                                                          P |-> Reference(ObjectId(3, 0))]),
                                              Reference(ObjectId(2, 7))>>)]))
        @@ (ObjectId(4, 0) :> Stream([Length |-> Reference(ObjectId(5, 0))],
                                     <<"nested content">>))
        @@ (ObjectId(5, 0) :> Integer(14))
        @@ (ObjectId(6, 0) :> Dictionary([Type |-> Name("Font")]))
        @@ (ObjectId(7, 1) :> Dictionary([S |-> Name("URI")])),
        ObjectId(1, 0))

\* what a path given to merge_pdfs_simple can hold
MergeFiles ==
    {CorruptFile,
     FlatPdf(<<3>>, <<<<"flat content">>>>),
     FlatPdf(<<7, 4>>, <<<<"first page">>, <<"second page">>>>),
     NestedPdf}

MergeInputPath(j) == "in/" \o ToString(j) \o ".pdf"

MergeOutputPath == "in/merged.pdf"

InitMerge ==
    /\ \E n \in 0..MaxMergeDocs :
          /\ plan = [f |-> "merge_pdfs_simple",
                     pdf_paths |-> [j \in 1..n |-> MergeInputPath(j)],
                     output_path |-> MergeOutputPath,
                     called |-> FALSE, result |-> Err("")]
          /\ \E files \in [1..n -> MergeFiles] :
                fs = [q \in {MergeInputPath(j) : j \in 1..n} \cup {MergeOutputPath} |->
                        IF q = MergeOutputPath THEN AbsentFile
                        ELSE files[CHOOSE j \in 1..n : q = MergeInputPath(j)]]
    /\ val = [called |-> FALSE]
    /\ inv = <<>>
    /\ db = NoAppState
    /\ owner = <<>>

\* lines 218-297: Err for an empty list or an unloadable file; otherwise
\* the merged document is saved and the sum of the page counts returned
CallMergePdfsSimple ==
    /\ plan.f = "merge_pdfs_simple"
    /\ ~plan.called
    /\ LET pdf_paths == plan.pdf_paths
           n == Len(pdf_paths)
       IN IF pdf_paths = <<>>
          THEN /\ plan' = [plan EXCEPT !.called = TRUE,
                                       !.result = Err("No PDFs to merge")]
               /\ fs' = fs
          ELSE IF \E j \in 1..n : ~Loadable(fs[pdf_paths[j]])
          THEN /\ plan' = [plan EXCEPT !.called = TRUE,
                                       !.result = Err("Failed to load PDF")]
               /\ fs' = fs
          ELSE /\ fs' = [fs EXCEPT ![plan.output_path] =
                           MergedDocument([j \in 1..n |-> fs[pdf_paths[j]]])]
               /\ plan' = [plan EXCEPT
                             !.called = TRUE,
                             !.result = Ok(SumSeq([j \in 1..n |->
                                              Len(GetPages(fs[pdf_paths[j]]))]))]
    /\ UNCHANGED <<val, inv, db, owner>>

NextMerge == CallMergePdfsSimple

SpecMerge == InitMerge /\ [][NextMerge]_vars

\* the references inside an object, each with the path of dictionary keys
\* and array positions that leads to it
RECURSIVE RefPaths(_)
RefPaths(obj) ==
    IF obj.t = "ref" THEN {<<<<>>, obj.id>>}
    ELSE IF obj.t = "arr"
    THEN UNION {{<<<<ToString(j)>> \o pr[1], pr[2]>> : pr \in RefPaths(obj.items[j])} :
                  j \in 1..Len(obj.items)}
    ELSE IF obj.t \in {"dict", "stream"}
    THEN UNION {{<<<<key>> \o pr[1], pr[2]>> : pr \in RefPaths(obj.dict[key])} :
                  key \in DOMAIN obj.dict}
    ELSE {}

\* the documents a successful merge has read
MergeDocs == [j \in 1..Len(plan.pdf_paths) |-> fs[plan.pdf_paths[j]]]

\* the offset document j is cloned with: 0 for the base, and for a later
\* document one more than the highest number the documents before it occupy
RECURSIVE MergeOffset(_)
MergeOffset(j) ==
    IF j = 1 THEN 0
    ELSE MergeOffset(j - 1) + MaxObjectNumber(MergeDocs[j - 1]) + 1

ShiftId(id, offset) == ObjectId(id[1] + offset, id[2])

\* the ids under which the objects of document j are found after the merge
ClonesOf(j) == {ShiftId(id, MergeOffset(j)) : id \in DOMAIN MergeDocs[j].objects}

MergeSucceeded == plan.f = "merge_pdfs_simple" /\ plan.called /\ plan.result.ok

\* C25: after merge_pdfs_simple, every reference found at any nesting depth
\* (dictionaries, arrays, stream dictionaries) inside an object cloned from a
\* source document, which pointed to object X of that source document,
\* points to X's clone (X's id plus that document's offset, same generation)
\* and never to an object of the base document or of another merged document.
C25_ReferencesFollowClones ==
    MergeSucceeded
    => \A j \in 2..Len(MergeDocs) :
          \A X \in DOMAIN MergeDocs[j].objects :
             LET source == MergeDocs[j].objects[X]
                 clone == fs[plan.output_path].objects[ShiftId(X, MergeOffset(j))]
             IN /\ RefPaths(clone) =
                      {<<pr[1], IF pr[2] \in DOMAIN MergeDocs[j].objects
                                THEN ShiftId(pr[2], MergeOffset(j))
                                ELSE pr[2]>> : pr \in RefPaths(source)}
                /\ \A pr \in RefPaths(source) :
                      pr[2] \in DOMAIN MergeDocs[j].objects
                      => \E pc \in RefPaths(clone) :
                            /\ pc[1] = pr[1]
                            /\ pc[2] \in ClonesOf(j)
                            /\ \A other \in (1..Len(MergeDocs)) \ {j} :
                                  pc[2] \notin ClonesOf(other)

\* the nested document merged as the third of three: the reference in its
\* stream dictionary points at the clone of its object 5
C25_Witness ==
    /\ MergeSucceeded
    /\ Len(MergeDocs) = 3
    /\ MergeDocs[2] # NestedPdf
    /\ MergeDocs[3] = NestedPdf
    /\ LET offset == MergeOffset(3)
       IN /\ offset > MaxObjectNumber(MergeDocs[1]) + 1
          /\ fs[plan.output_path].objects[ObjectId(4 + offset, 0)].dict["Length"]
                = Reference(ObjectId(5 + offset, 0))

----------------------------------------------------------------------------
(* SpecCloneId: the id arithmetic of merge_pdfs_simple (line 259) in u32.  *)
(* A u32 is a pair <<high, low>> of 16-bit halves.                         *)

LimbBase == 65536   \* 2^16: a u32 is two halves below this

MaxLimbSample == 3  \* object numbers within this distance of 0 and of u32::MAX

U32(high, low) == <<high, low>>

U32One == U32(0, 1)

U32Less(a, b) == a[1] < b[1] \/ (a[1] = b[1] /\ a[2] < b[2])

\* a + b does not fit u32
U32AddOverflows(a, b) ==
    a[1] + b[1] + ((a[2] + b[2]) \div LimbBase) >= LimbBase

\* a + b modulo 2^32
U32WrappingAdd(a, b) ==
    U32((a[1] + b[1] + ((a[2] + b[2]) \div LimbBase)) % LimbBase,
        (a[2] + b[2]) % LimbBase)

\* object numbers near both ends of u32
U32Samples ==
    {U32(0, d) : d \in 0..MaxLimbSample}
    \cup {U32(LimbBase - 1, LimbBase - 1 - d) : d \in 0..MaxLimbSample}

\* an object of the source document and the highest object number of the
\* base document
CloneIdInputs ==
    [f : {"new_id"}, old_id : {ObjectId(n, g) : n \in U32Samples, g \in {0, 1}},
     max_id : U32Samples, called : {FALSE}, panicked : {FALSE},
     new_id : {ObjectId(U32(0, 0), 0)}]

InitCloneId ==
    /\ plan \in CloneIdInputs
    /\ val = [called |-> FALSE]
    /\ fs = <<>>
    /\ inv = <<>>
    /\ db = NoAppState
    /\ owner = <<>>

\* line 259: new_id = (old_id.0 + max_id + 1, old_id.1).  When a sum does
\* not fit u32 a build with overflow checks panics and a build without
\* them wraps around.
CallNewId ==
    /\ plan.f = "new_id"
    /\ ~plan.called
    /\ LET first == U32WrappingAdd(plan.old_id[1], plan.max_id)
           overflows == \/ U32AddOverflows(plan.old_id[1], plan.max_id)
                        \/ U32AddOverflows(first, U32One)
       IN \E overflow_checks \in BOOLEAN :
             plan' = [plan EXCEPT
                        !.called = TRUE,
                        !.panicked = overflows /\ overflow_checks,
                        !.new_id = IF overflows /\ overflow_checks THEN @
                                   ELSE ObjectId(U32WrappingAdd(first, U32One),
                                                 plan.old_id[2])]
    /\ UNCHANGED <<val, fs, inv, db, owner>>

NextCloneId == CallNewId

SpecCloneId == InitCloneId /\ [][NextCloneId]_vars

\* C29 (as claimed): in merge_pdfs_simple the id offset is recomputed from
\* the current maximum object id of the growing base graph, so every cloned
\* object is stored under an id strictly greater than every id already
\* present (none of which exceeds max_id): no object of the base document
\* or of an earlier merged document is overwritten, and the generation
\* number is preserved.
C29_CloneIdAboveAll ==
    (plan.f = "new_id" /\ plan.called)
    => /\ ~plan.panicked
       /\ U32Less(plan.max_id, plan.new_id[1])
       /\ plan.new_id[2] = plan.old_id[2]

----------------------------------------------------------------------------
(* SpecStamp: inject_page_stamp applied again and again to one page *)

MaxStamps == 3   \* how often the page is stamped

\* a one-page document whose page gives its content in one of the ways a
\* PDF allows: a reference to one stream, an array of references to streams
\* that are read one after the other, or no Contents at all
StampShapes == {"reference", "array", "none"}

StampPageId == ObjectId(3, 0)

PageOfShape(shape) ==
    IF shape = "reference"
    THEN Dictionary([Type |-> Name("Page"), Parent |-> Reference(ObjectId(2, 0)),
                     Contents |-> Reference(ObjectId(4, 0))])
    ELSE IF shape = "array"
    THEN Dictionary([Type |-> Name("Page"), Parent |-> Reference(ObjectId(2, 0)),
                     Contents |-> Array(<<Reference(ObjectId(4, 0)),
                                          Reference(ObjectId(5, 0))>>)])
    ELSE Dictionary([Type |-> Name("Page"), Parent |-> Reference(ObjectId(2, 0))])

StampInput(shape) ==
    Document(
        (ObjectId(1, 0) :> Dictionary([Type |-> Name("Catalog"),
                                       Pages |-> Reference(ObjectId(2, 0))]))
        @@ (ObjectId(2, 0) :> Dictionary([Type |-> Name("Pages"),
                                          Kids |-> Array(<<Reference(StampPageId)>>),
                                          Count |-> Integer(1)]))
        @@ (StampPageId :> PageOfShape(shape))
        @@ (ObjectId(4, 0) :> Stream([Length |-> Integer(1)], <<"first part">>))
        @@ (ObjectId(5, 0) :> Stream([Length |-> Integer(1)], <<"second part">>)),
        ObjectId(1, 0))

InitStamp ==
    /\ plan \in {[f |-> "inject_page_stamp", shape |-> shape, format |-> format,
                  total_pages |-> MaxPage, doc |-> StampInput(shape),
                  labels |-> <<>>] :
                 shape \in StampShapes, format \in Formats}
    /\ val = [called |-> FALSE]
    /\ fs = <<>>
    /\ inv = <<>>
    /\ db = NoAppState
    /\ owner = <<>>

\* one call of inject_page_stamp on the page; labels records the texts
\* stamped so far
CallInjectPageStamp ==
    /\ plan.f = "inject_page_stamp"
    /\ Len(plan.labels) < MaxStamps
    /\ \E page_num \in 1..MaxPage :
          plan' = [plan EXCEPT
                     !.doc = inject_page_stamp(plan.doc, StampPageId, page_num,
                                               plan.total_pages, plan.format),
                     !.labels = Append(@, StampText(plan.format, page_num,
                                                    plan.total_pages))]
    /\ UNCHANGED <<val, fs, inv, db, owner>>

NextStamp == CallInjectPageStamp

SpecStamp == InitStamp /\ [][NextStamp]_vars

\* what a page draws: the content of the stream its Contents refers to, or
\* of the streams of a Contents array one after the other
RECURSIVE ConcatContents(_, _)
ConcatContents(doc, items) ==
    IF items = <<>> THEN <<>>
    ELSE (IF Head(items).t = "ref" /\ Head(items).id \in DOMAIN doc.objects
             /\ doc.objects[Head(items).id].t = "stream"
          THEN doc.objects[Head(items).id].content
          ELSE <<>>) \o ConcatContents(doc, Tail(items))

PageContent(doc, page_id) ==
    IF ~HasKey(doc.objects[page_id], "Contents") THEN <<>>
    ELSE LET contents == doc.objects[page_id].dict["Contents"]
         IN IF contents.t = "arr" THEN ConcatContents(doc, contents.items)
            ELSE ConcatContents(doc, <<contents>>)

\* the label sequences of the texts, in order
RECURSIVE LabelOps(_)
LabelOps(labels) ==
    IF labels = <<>> THEN <<>>
    ELSE <<"\n", StampOps(Head(labels)), "\n">> \o LabelOps(Tail(labels))

\* C26 (as claimed): stamping one page (inject_page_stamp) keeps all of the
\* page's previous content as the prefix of the new content stream and
\* appends exactly one label operator sequence after it, then repoints
\* Contents at the new stream while leaving the old stream object in the
\* graph; a page stamped n times carries n labels in stamping order,
\* preceded by its original content.
C26_StampAppendsToContent ==
    (plan.f = "inject_page_stamp" /\ plan.labels # <<>>)
    => /\ PageContent(plan.doc, StampPageId)
             = PageContent(StampInput(plan.shape), StampPageId) \o LabelOps(plan.labels)
       /\ plan.doc.objects[StampPageId].dict["Contents"].t = "ref"
       /\ \A id \in DOMAIN StampInput(plan.shape).objects \ {StampPageId} :
             plan.doc.objects[id] = StampInput(plan.shape).objects[id]
====
